---------------------------- MODULE Spec2Model ----------------------------
(***************************************************************************)
(* A model of the BASIC interpreter of basic.py (class BasicInterpreter,   *)
(* convert_basic_expr) and of the callers that drive it.                   *)
(*                                                                         *)
(* Python strings are modelled as sequences of one-character strings, so   *)
(* that strip, upper, split, startswith, the substring test and the two    *)
(* regular expressions of convert_basic_expr are computed character by     *)
(* character, as the interpreter computes them.                            *)
(***************************************************************************)
EXTENDS Integers, Sequences, FiniteSets, TLC

\* F applied to v.  A value computed once and read several times is
\* handed to the operator that reads it.
With(v, F(_)) == F(v)

\* ------------------------------------------------------------------------
\* Characters (str methods of Python used by basic.py)
\* ------------------------------------------------------------------------

LowerSeq == <<"a","b","c","d","e","f","g","h","i","j","k","l","m",
              "n","o","p","q","r","s","t","u","v","w","x","y","z">>

UpperSeq == <<"A","B","C","D","E","F","G","H","I","J","K","L","M",
              "N","O","P","Q","R","S","T","U","V","W","X","Y","Z">>

DigitSeq == <<"0","1","2","3","4","5","6","7","8","9">>

LowerSet == {LowerSeq[i] : i \in DOMAIN LowerSeq}

UpperSet == {UpperSeq[i] : i \in DOMAIN UpperSeq}

DigitSet == {DigitSeq[i] : i \in DOMAIN DigitSeq}

\* [A-Za-z] of the regular expression that strips the "$" marker
LetterSet == LowerSet \cup UpperSet

\* Characters str.strip() and str.split() treat as white space
WhiteSet == {" ", "\t"}

\* Printable ASCII characters in code-point order; Python compares strings
\* by code point, so only the order of this table matters.
AsciiSeq == <<" ","!","\"","#","$","%","&","'","(",")","*","+",",","-",".","/",
              "0","1","2","3","4","5","6","7","8","9",":",";","<","=",">","?",
              "@","A","B","C","D","E","F","G","H","I","J","K","L","M","N","O",
              "P","Q","R","S","T","U","V","W","X","Y","Z","[","\\","]","^","_",
              "a","b","c","d","e","f","g","h","i","j","k","l","m","n","o",
              "p","q","r","s","t","u","v","w","x","y","z","{","|","}","~">>

upperOf == [c \in LowerSet |-> UpperSeq[CHOOSE i \in DOMAIN LowerSeq : LowerSeq[i] = c]]

digitOf == [c \in DigitSet |-> (CHOOSE i \in DOMAIN DigitSeq : DigitSeq[i] = c) - 1]

\* the rank of c in code-point order (0 for a character below the table)
OrdChar(c) ==
    IF \E i \in DOMAIN AsciiSeq : AsciiSeq[i] = c
    THEN CHOOSE i \in DOMAIN AsciiSeq : AsciiSeq[i] = c
    ELSE 0

\* str.upper() on one character
UpperChar(c) == IF c \in LowerSet THEN upperOf[c] ELSE c

\* str.upper()
Upper(s) == [i \in DOMAIN s |-> UpperChar(s[i])]

RECURSIVE LStrip(_)
LStrip(s) ==
    IF s # <<>> /\ Head(s) \in WhiteSet THEN LStrip(Tail(s)) ELSE s

RECURSIVE RStrip(_)
RStrip(s) ==
    IF s # <<>> /\ s[Len(s)] \in WhiteSet
    THEN RStrip(SubSeq(s, 1, Len(s) - 1))
    ELSE s

\* str.strip()
Strip(s) == RStrip(LStrip(s))

\* the length of the longest prefix of s made of characters of S
RECURSIVE RunLen(_, _)
RunLen(s, S) == IF s # <<>> /\ Head(s) \in S THEN 1 + RunLen(Tail(s), S) ELSE 0

\* s[i:] with a 0-based i, as Python slices
From(s, i) == SubSeq(s, i + 1, Len(s))

\* str.startswith(p)
StartsWith(s, p) == Len(s) >= Len(p) /\ SubSeq(s, 1, Len(p)) = p

\* 1-based index of the first occurrence of the non-empty p in s, 0 if none
Find(s, p) ==
    LET hits == {i \in 1..(Len(s) - Len(p) + 1) : SubSeq(s, i, i + Len(p) - 1) = p}
    IN  IF hits = {} THEN 0 ELSE CHOOSE i \in hits : \A j \in hits : i <= j

\* the test `p in s` on strings
Contains(s, p) == Find(s, p) # 0

\* str.split(p, 1): one piece when p does not occur, two otherwise
Split1(s, p) ==
    With(Find(s, p), LAMBDA i :
        IF i = 0 THEN <<s>>
        ELSE <<SubSeq(s, 1, i - 1), SubSeq(s, i + Len(p), Len(s))>>)

\* str.split(p): every piece between the occurrences of p
RECURSIVE SplitAll(_, _)
SplitAll(s, p) ==
    With(Find(s, p), LAMBDA i :
        IF i = 0 THEN <<s>>
        ELSE <<SubSeq(s, 1, i - 1)>> \o SplitAll(SubSeq(s, i + Len(p), Len(s)), p))

\* str.split() without argument: the maximal runs of non-white characters
RECURSIVE SplitWhite(_)
SplitWhite(s) ==
    With(LStrip(s), LAMBDA t :
        With(RunLen(t, {t[i] : i \in DOMAIN t} \ WhiteSet), LAMBDA n :
            IF t = <<>> THEN <<>>
            ELSE <<SubSeq(t, 1, n)>> \o SplitWhite(From(t, n))))

\* str.replace(old, new): the non-overlapping occurrences, left to right
RECURSIVE Replace(_, _, _)
Replace(s, old, new) ==
    With(Find(s, old), LAMBDA i :
        IF i = 0 THEN s
        ELSE SubSeq(s, 1, i - 1) \o new
                \o Replace(SubSeq(s, i + Len(old), Len(s)), old, new))

\* the concatenation of a sequence of strings
RECURSIVE Concat(_)
Concat(ss) == IF ss = <<>> THEN <<>> ELSE Head(ss) \o Concat(Tail(ss))

\* ------------------------------------------------------------------------
\* convert_basic_expr
\* ------------------------------------------------------------------------

\* re.sub(r'(?<![<>!])=(?![=<>])', '==', s): the look-behind and the
\* look-ahead read the characters of s itself, so each "=" is decided alone.
SubEquals(s) ==
    Concat([i \in DOMAIN s |->
        IF /\ s[i] = "="
           /\ (i = 1 \/ s[i - 1] \notin {"<", ">", "!"})
           /\ (i = Len(s) \/ s[i + 1] \notin {"=", "<", ">"})
        THEN <<"=", "=">>
        ELSE <<s[i]>>])

\* the "$" of the names left where they are
KeepMarker(s) == s

\* re.sub(r'([A-Za-z]+)\$', r'\1', s): a "$" goes when a letter precedes it
StripMarker(s) ==
    Concat([i \in DOMAIN s |->
        IF s[i] = "$" /\ i > 1 /\ s[i - 1] \in LetterSet THEN <<>> ELSE <<s[i]>>])

convert_basic_expr(expr) ==
    StripMarker(SubEquals(
        Replace(Replace(expr, <<" ","O","R"," ">>, <<" ","o","r"," ">>),
                <<" ","A","N","D"," ">>, <<" ","a","n","d"," ">>)))

\* ------------------------------------------------------------------------
\* Values of the interpreter: the Python objects eval can return here
\* ------------------------------------------------------------------------

IntV(n) == [t |-> "int", n |-> n, s |-> <<>>]

StrV(s) == [t |-> "str", n |-> 0, s |-> s]

\* bool is a subclass of int: True is 1 and False is 0 in arithmetic
BoolV(b) == [t |-> "bool", n |-> IF b THEN 1 ELSE 0, s |-> <<>>]

\* a callable: the bound method self.inkey or the lambda bound to CHR
FnV(name) == [t |-> "fn", n |-> 0, s |-> name]

IsNum(v) == v.t \in {"int", "bool"}

\* bool(v), the test `if cond:` applies
Truthy(v) ==
    CASE v.t = "str" -> v.s # <<>>
      [] v.t = "fn" -> TRUE
      [] OTHER -> v.n # 0

RECURSIVE NatDigits(_)
NatDigits(n) ==
    IF n < 10 THEN <<DigitSeq[n + 1]>>
    ELSE NatDigits(n \div 10) \o <<DigitSeq[(n % 10) + 1]>>

\* str(v)
PyStr(v) ==
    CASE v.t = "int" -> IF v.n < 0 THEN <<"-">> \o NatDigits(0 - v.n) ELSE NatDigits(v.n)
      [] v.t = "bool" -> IF v.n = 1 THEN <<"T","r","u","e">> ELSE <<"F","a","l","s","e">>
      [] v.t = "str" -> v.s
      [] OTHER -> <<"<">> \o v.s \o <<">">>

IsDigits(s) == s # <<>> /\ \A i \in DOMAIN s : s[i] \in DigitSet

RECURSIVE DigitsValue(_)
DigitsValue(s) ==
    IF s = <<>> THEN 0
    ELSE 10 * DigitsValue(SubSeq(s, 1, Len(s) - 1)) + digitOf[s[Len(s)]]

\* the digits of a signed decimal numeral, <<>> when s is none
Unsigned(s) == IF s # <<>> /\ Head(s) \in {"+", "-"} THEN Tail(s) ELSE s

\* int(v): [n, exc]; a string that is no numeral raises ValueError, a
\* callable TypeError
PyInt(v) ==
    CASE IsNum(v) -> [n |-> v.n, exc |-> "none"]
      [] v.t = "str" ->
            With(Strip(v.s), LAMBDA u :
                IF IsDigits(Unsigned(u))
                THEN [n |-> IF Head(u) = "-" THEN 0 - DigitsValue(Unsigned(u))
                            ELSE DigitsValue(Unsigned(u)),
                      exc |-> "none"]
                ELSE [n |-> 0, exc |-> "ValueError"])
      [] OTHER -> [n |-> 0, exc |-> "TypeError"]

\* the exception float(v) raises, "none" when it returns: a number
\* converts, and so does a string holding a decimal numeral with at most
\* one point
PyFloatExc(v) ==
    CASE IsNum(v) -> "none"
      [] v.t = "str" ->
            With(SplitAll(Unsigned(Strip(v.s)), <<".">>), LAMBDA parts :
                IF /\ Len(parts) <= 2
                   /\ Concat(parts) # <<>>
                   /\ \A i \in DOMAIN parts : parts[i] = <<>> \/ IsDigits(parts[i])
                THEN "none"
                ELSE "ValueError")
      [] OTHER -> "TypeError"

\* ------------------------------------------------------------------------
\* eval(conv_expr, {}, env): the expressions of the interpreted programs.
\* The grammar modelled is the part of Python's the programs here use:
\*   or_test  ::= and_test ("or" and_test)*
\*   and_test ::= compare ("and" compare)*
\*   compare  ::= sum (("==" | "!=" | "<" | "<=" | ">" | ">=") sum)*
\*   sum      ::= unary (("+" | "-") unary)*
\*   unary    ::= ("+" | "-")* atom
\*   atom     ::= decimal integer | "string" | identifier
\* Text outside it that Python rejects as well (a lone "=", a "$", an
\* unclosed string, nothing at all) is a SyntaxError; calls, parentheses,
\* "*", "/", and "not" are not used by the programs modelled.
\* ------------------------------------------------------------------------

IdCharSet == LetterSet \cup DigitSet \cup {"_"}

TwoCharOps == {<<"=","=">>, <<"!","=">>, <<"<","=">>, <<">","=">>}

Tok(k, v) == [k |-> k, v |-> v]

\* a decimal integer literal: digits, no leading zero unless all are zeros
NumLiteralOk(lit) ==
    /\ IsDigits(lit)
    /\ (Len(lit) = 1 \/ lit[1] # "0" \/ \A i \in DOMAIN lit : lit[i] = "0")

\* Python's tokens of the text s; "bad" is a token no expression contains
\* the first token of the non-empty text t, which starts with no blank
FirstToken(t) ==
    With(RunLen(t, IdCharSet), LAMBDA n :
    With(Find(Tail(t), <<"\"">>), LAMBDA close :
        CASE t[1] \in DigitSet ->
               Tok(IF NumLiteralOk(SubSeq(t, 1, n)) THEN "num" ELSE "bad", SubSeq(t, 1, n))
          [] t[1] \in LetterSet \cup {"_"} -> Tok("id", SubSeq(t, 1, n))
          [] t[1] = "\"" ->
               IF close = 0 THEN Tok("bad", t) ELSE Tok("str", SubSeq(t, 2, close))
          [] Len(t) >= 2 /\ SubSeq(t, 1, 2) \in TwoCharOps -> Tok("op", SubSeq(t, 1, 2))
          [] t[1] \in {"<", ">", "+", "-"} -> Tok("op", <<t[1]>>)
          [] OTHER -> Tok("bad", <<t[1]>>)))

\* the characters a token takes: a string has its two quotes around it
TokenLen(tok) == IF tok.k = "str" THEN Len(tok.v) + 2 ELSE Len(tok.v)

RECURSIVE Tokenize(_)
Tokenize(s) ==
    IF LStrip(s) = <<>> THEN <<>>
    ELSE With(FirstToken(LStrip(s)), LAMBDA tok :
            <<tok>> \o Tokenize(From(LStrip(s), TokenLen(tok))))

OrTok == Tok("id", <<"o","r">>)

AndTok == Tok("id", <<"a","n","d">>)

CmpToks == {Tok("op", o) : o \in TwoCharOps \cup {<<"<">>, <<">">>}}

SignToks == {Tok("op", <<"+">>), Tok("op", <<"-">>)}

\* the pieces of the token sequence ts between its tokens of seps
RECURSIVE SplitTok(_, _)
SplitTok(ts, seps) ==
    With(RunLen(ts, {ts[i] : i \in DOMAIN ts} \ seps), LAMBDA n :
        IF n = Len(ts) THEN <<ts>>
        ELSE <<SubSeq(ts, 1, n)>> \o SplitTok(From(ts, n + 1), seps))

\* the tokens of seps in ts, in order
SepsOf(ts, seps) == SelectSeq(ts, LAMBDA x : x \in seps)

IsAtom(tok) == tok.k \in {"num", "str"} \/ (tok.k = "id" /\ tok \notin {OrTok, AndTok})

RECURSIVE SumOk(_)
SumOk(ts) ==
    /\ ts # <<>>
    /\ \/ Head(ts) \in SignToks /\ SumOk(Tail(ts))
       \/ IsAtom(Head(ts))
          /\ (Len(ts) = 1 \/ (ts[2] \in SignToks /\ SumOk(From(ts, 2))))

AllOk(parts, Ok(_)) == \A i \in DOMAIN parts : Ok(parts[i])

CompareOk(ts) == AllOk(SplitTok(ts, CmpToks), SumOk)

AndTestOk(ts) == AllOk(SplitTok(ts, {AndTok}), CompareOk)

\* the text compiles: anything else raises SyntaxError before evaluation
OrTestOk(ts) == AllOk(SplitTok(ts, {OrTok}), AndTestOk)

\* the result of an evaluation: a value, or the exception raised
Val(v) == [ok |-> TRUE, v |-> v, exc |-> "none"]

Raised(exc) == [ok |-> FALSE, v |-> IntV(0), exc |-> exc]

\* an atom; an identifier that env does not bind raises NameError
EvalAtom(tok, env) ==
    CASE tok.k = "num" -> Val(IntV(DigitsValue(tok.v)))
      [] tok.k = "str" -> Val(StrV(tok.v))
      [] OTHER -> IF tok.v \in DOMAIN env THEN Val(env[tok.v]) ELSE Raised("NameError")

\* a + b: numbers add, strings concatenate, anything else is a TypeError
PyAdd(a, b) ==
    CASE IsNum(a) /\ IsNum(b) -> Val(IntV(a.n + b.n))
      [] a.t = "str" /\ b.t = "str" -> Val(StrV(a.s \o b.s))
      [] OTHER -> Raised("TypeError")

PySub(a, b) ==
    IF IsNum(a) /\ IsNum(b) THEN Val(IntV(a.n - b.n)) ELSE Raised("TypeError")

\* unary: [ok, v, exc, rest], rest being the tokens after the operand; the
\* sign of anything but a number is a TypeError
RECURSIVE EvalUnary(_, _)
EvalUnary(ts, env) ==
    IF Head(ts) \in SignToks
    THEN With(EvalUnary(Tail(ts), env), LAMBDA r :
            CASE ~r.ok -> r
              [] ~IsNum(r.v) -> [r EXCEPT !.ok = FALSE, !.v = IntV(0), !.exc = "TypeError"]
              [] OTHER -> [r EXCEPT !.v = IntV(IF Head(ts).v = <<"-">> THEN 0 - r.v.n
                                               ELSE r.v.n)])
    ELSE With(EvalAtom(Head(ts), env), LAMBDA a :
            [ok |-> a.ok, v |-> a.v, exc |-> a.exc, rest |-> Tail(ts)])

\* the rest of a sum, acc being the value of what stands before ts
RECURSIVE EvalSumRest(_, _, _)
EvalSumRest(acc, ts, env) ==
    IF ts = <<>> \/ ~acc.ok THEN acc
    ELSE With(EvalUnary(Tail(ts), env), LAMBDA r :
            EvalSumRest(IF ~r.ok THEN Raised(r.exc)
                        ELSE IF Head(ts).v = <<"+">> THEN PyAdd(acc.v, r.v)
                        ELSE PySub(acc.v, r.v),
                        r.rest, env))

EvalSum(ts, env) ==
    With(EvalUnary(ts, env), LAMBDA r :
        EvalSumRest([ok |-> r.ok, v |-> r.v, exc |-> r.exc], r.rest, env))

\* a == b
PyEqual(a, b) ==
    CASE IsNum(a) /\ IsNum(b) -> a.n = b.n
      [] a.t = b.t -> a.s = b.s
      [] OTHER -> FALSE

\* a < b on strings: by code point, a proper prefix being smaller
RECURSIVE StrLess(_, _)
StrLess(a, b) ==
    CASE b = <<>> -> FALSE
      [] a = <<>> -> TRUE
      [] Head(a) = Head(b) -> StrLess(Tail(a), Tail(b))
      [] OTHER -> OrdChar(Head(a)) < OrdChar(Head(b))

\* a op b for one comparison operator; ordering two values of different
\* kinds, or two callables, is a TypeError
PyLess(x, y) == IF IsNum(x) THEN x.n < y.n ELSE StrLess(x.s, y.s)

PyCompare(op, a, b) ==
    CASE op = <<"=","=">> -> Val(BoolV(PyEqual(a, b)))
      [] op = <<"!","=">> -> Val(BoolV(~PyEqual(a, b)))
      [] ~((IsNum(a) /\ IsNum(b)) \/ (a.t = "str" /\ b.t = "str")) -> Raised("TypeError")
      [] OTHER ->
           Val(BoolV(CASE op = <<"<">> -> PyLess(a, b)
                       [] op = <<">">> -> PyLess(b, a)
                       [] op = <<"<","=">> -> ~PyLess(b, a)
                       [] OTHER -> ~PyLess(a, b)))

\* a chained comparison: left op1 x1 op2 x2 ..., stopping at the first
\* comparison that is false
RECURSIVE EvalChain(_, _, _, _)
EvalChain(left, ops, operands, env) ==
    With(EvalSum(Head(operands), env), LAMBDA right :
    With(IF right.ok THEN PyCompare(Head(ops).v, left, right.v) ELSE right, LAMBDA c :
        IF ~c.ok \/ ~Truthy(c.v) \/ Len(ops) = 1 THEN c
        ELSE EvalChain(right.v, Tail(ops), Tail(operands), env)))

EvalCompare(ts, env) ==
    With(SplitTok(ts, CmpToks), LAMBDA operands :
    With(EvalSum(Head(operands), env), LAMBDA first :
        IF Len(operands) = 1 \/ ~first.ok THEN first
        ELSE EvalChain(first.v, SepsOf(ts, CmpToks), Tail(operands), env)))

\* x and y and ...: the first falsy operand, else the last; the operands
\* after it are not evaluated
RECURSIVE EvalAndList(_, _)
EvalAndList(parts, env) ==
    With(EvalCompare(Head(parts), env), LAMBDA r :
        IF ~r.ok \/ Len(parts) = 1 \/ ~Truthy(r.v) THEN r
        ELSE EvalAndList(Tail(parts), env))

EvalAndTest(ts, env) == EvalAndList(SplitTok(ts, {AndTok}), env)

\* x or y or ...: the first truthy operand, else the last
RECURSIVE EvalOrList(_, _)
EvalOrList(parts, env) ==
    With(EvalAndTest(Head(parts), env), LAMBDA r :
        IF ~r.ok \/ Len(parts) = 1 \/ Truthy(r.v) THEN r
        ELSE EvalOrList(Tail(parts), env))

\* eval(src, {}, env)
PyEval(src, env) ==
    With(Tokenize(src), LAMBDA ts :
        IF OrTestOk(ts) THEN EvalOrList(SplitTok(ts, {OrTok}), env)
        ELSE Raised("SyntaxError"))

\* ------------------------------------------------------------------------
\* The virtual screen: a pygame.Surface and what has been drawn on it
\* ------------------------------------------------------------------------

\* QBasic colours 0-15
colors ==
    [c \in 0..15 |->
        CASE c = 0 -> <<0, 0, 0>>
          [] c = 1 -> <<0, 0, 170>>
          [] c = 2 -> <<0, 170, 0>>
          [] c = 3 -> <<0, 170, 170>>
          [] c = 4 -> <<170, 0, 0>>
          [] c = 5 -> <<170, 0, 170>>
          [] c = 6 -> <<170, 85, 0>>
          [] c = 7 -> <<170, 170, 170>>
          [] c = 8 -> <<85, 85, 85>>
          [] c = 9 -> <<85, 85, 255>>
          [] c = 10 -> <<85, 255, 85>>
          [] c = 11 -> <<85, 255, 255>>
          [] c = 12 -> <<255, 85, 85>>
          [] c = 13 -> <<255, 85, 255>>
          [] c = 14 -> <<255, 255, 85>>
          [] OTHER -> <<255, 255, 255>>]

Black == <<0, 0, 0>>

White == <<255, 255, 255>>

\* self.colors.get(c, (255, 255, 255))
basic_color(c) == IF c \in DOMAIN colors THEN colors[c] ELSE White

\* self.surface is None
NoSurface == [exists |-> FALSE, w |-> 0, h |-> 0, marks |-> <<>>]

\* pygame.Surface((w, h)) filled with black.  The raster is kept as the
\* drawing calls made on it since it was last black, in order: equal lists
\* are equal rasters.
NewSurface(w, h) == [exists |-> TRUE, w |-> w, h |-> h, marks |-> <<>>]

\* surface.fill((0, 0, 0))
FillBlack(surface) == [surface EXCEPT !.marks = <<>>]

Mark(op, args, text, color) == [op |-> op, args |-> args, text |-> text, color |-> color]

\* One drawing call.  Drawing what was drawn before paints the same pixels
\* once more, on top: the earlier call no longer decides any pixel.
Paint(surface, mark) ==
    [surface EXCEPT !.marks = Append(SelectSeq(@, LAMBDA m : m # mark), mark)]

\* surface.blit(font.render(text, True, white), (x, y)): no glyph, no pixel
BlitText(surface, col, row, text) ==
    IF text = <<>> THEN surface
    ELSE Paint(surface, Mark("text", <<col, row>>, text, White))

\* every pixel is black: nothing was drawn in another colour
AllBlack(surface) == \A i \in DOMAIN surface.marks : surface.marks[i].color = Black

\* ------------------------------------------------------------------------
\* re.search with the patterns of LINE, CIRCLE and PAINT.  Each pattern is
\* a sequence of items: a literal text, a run "[^c]+" (one or more
\* characters other than c) or the rest ".+".  A run stands before the
\* literal c throughout, so it extends to the next c; a match is decided
\* by where it starts.
\* ------------------------------------------------------------------------

Lit(text) == [kind |-> "lit", text |-> text]

RunNot(c) == [kind |-> "run", text |-> <<c>>]

Rest == [kind |-> "rest", text |-> <<>>]

NoMatch == [ok |-> FALSE, groups |-> <<>>, rest |-> <<>>]

\* the text the item takes at the start of s, -1 if it does not match there
ItemLen(s, it) ==
    CASE it.kind = "lit" -> IF StartsWith(s, it.text) THEN Len(it.text) ELSE -1
      [] it.kind = "run" ->
           With(RunLen(s, {s[i] : i \in DOMAIN s} \ {it.text[1]}), LAMBDA n :
               IF n = 0 THEN -1 ELSE n)
      [] OTHER -> IF s = <<>> THEN -1 ELSE Len(s)

\* the items matched at the start of s: [ok, groups, rest]
RECURSIVE MatchItems(_, _)
MatchItems(s, items) ==
    IF items = <<>> THEN [ok |-> TRUE, groups |-> <<>>, rest |-> s]
    ELSE With(ItemLen(s, Head(items)), LAMBDA n :
            IF n < 0 THEN NoMatch
            ELSE With(MatchItems(From(s, n), Tail(items)), LAMBDA m :
                    IF ~m.ok THEN NoMatch
                    ELSE IF Head(items).kind = "lit" THEN m
                    ELSE [m EXCEPT !.groups = <<SubSeq(s, 1, n)>> \o @]))

\* re.search: the match at the leftmost position where one starts
RECURSIVE Search(_, _)
Search(s, items) ==
    With(MatchItems(s, items), LAMBDA m :
        IF m.ok \/ s = <<>> THEN m ELSE Search(Tail(s), items))

\* \(([^,]+),([^)]+)\)
PointItems == <<Lit(<<"(">>), RunNot(","), Lit(<<",">>), RunNot(")"), Lit(<<")">>)>>

\* \(([^,]+),([^)]+)\)-\(([^,]+),([^)]+)\),([^,]+)(?:,\s*(BF))?
\* groups 1-5; group 6 is read off what follows them
LineItems == PointItems \o <<Lit(<<"-">>)>> \o PointItems \o <<Lit(<<",">>), RunNot(",")>>

\* (?:,\s*(BF))? under re.IGNORECASE, at the start of s: group 6 is set
LineFillGroup(s) ==
    /\ s # <<>>
    /\ Head(s) = ","
    /\ StartsWith(Upper(LStrip(Tail(s))), <<"B","F">>)

\* \(([^,]+),([^)]+)\),([^,]+),(.+)
CircleItems == PointItems \o <<Lit(<<",">>), RunNot(","), Lit(<<",">>), Rest>>

\* \(([^,]+),([^)]+)\),(.+)
PaintItems == PointItems \o <<Lit(<<",">>), Rest>>

\* ------------------------------------------------------------------------
\* BasicInterpreter.  `self` is the record of the interpreter's fields;
\* its field evals is a log, not a field of the program: the calls of
\* eval_expr made by the line being executed.
\* ------------------------------------------------------------------------

\* self.screen_width, self.screen_height: 320 x 200 at construction and
\* after SCREEN 13, the one mode supported
screen_width == 320

screen_height == 200

N_CHR == <<"C","H","R">>

N_INKEY == <<"I","N","K","E","Y">>

K_THEN == <<"T","H","E","N">>

K_ENDIF == <<"E","N","D"," ","I","F">>

K_EXITDO == <<"E","X","I","T"," ","D","O">>

\* dict(self.variables) with CHR and INKEY bound over it
EvalEnv(vars) ==
    [x \in DOMAIN vars \cup {N_CHR, N_INKEY} |->
        IF x \in {N_CHR, N_INKEY} THEN FnV(x) ELSE vars[x]]

\* the identifiers of a translated expression that env does not bind
UnboundIds(conv_expr, env) ==
    With(Tokenize(conv_expr), LAMBDA ts :
        {ts[i].v : i \in {j \in DOMAIN ts : ts[j].k = "id" /\ ts[j] \notin {OrTok, AndTok}
                                            /\ ts[j].v \notin DOMAIN env}})

\* a read of the last key that leaves it in place
inkey_keeps(self) == [self |-> self, v |-> StrV(self.last_key)]

\* the last key pressed, then cleared: [self, v]
inkey(self) == [self |-> [self EXCEPT !.last_key = <<>>], v |-> StrV(self.last_key)]

\* eval_expr with an except clause that returns 1, not 0
eval_expr_nonzero(self, expr) ==
    With(convert_basic_expr(expr), LAMBDA conv_expr :
    With(IF Strip(conv_expr) = N_INKEY THEN Val(inkey(self).v)
         ELSE PyEval(conv_expr, EvalEnv(self.variables)), LAMBDA r :
        [self |-> [(IF Strip(conv_expr) = N_INKEY THEN inkey(self).self ELSE self)
                    EXCEPT !.evals = Append(@,
                      [expr |-> expr,
                       unbound |-> UnboundIds(conv_expr, EvalEnv(self.variables)),
                       exc |-> r.exc,
                       v |-> IF r.ok THEN r.v ELSE IntV(1)])],
         v |-> IF r.ok THEN r.v ELSE IntV(1)]))

\* the outcome of the body of eval_expr on the translated expression
EvalOutcome(self, conv_expr) ==
    IF Strip(conv_expr) = N_INKEY THEN Val(inkey(self).v)
    ELSE PyEval(conv_expr, EvalEnv(self.variables))

\* [self, v]: the value of the BASIC expression, 0 when eval raises
eval_expr(self, expr) ==
    With(convert_basic_expr(expr), LAMBDA conv_expr :
    With(EvalOutcome(self, conv_expr), LAMBDA r :
        [self |-> [(IF Strip(conv_expr) = N_INKEY THEN inkey(self).self ELSE self)
                    EXCEPT !.evals = Append(@,
                      [expr |-> expr,
                       unbound |-> UnboundIds(conv_expr, EvalEnv(self.variables)),
                       exc |-> r.exc,
                       v |-> IF r.ok THEN r.v ELSE IntV(0)])],
         v |-> IF r.ok THEN r.v ELSE IntV(0)]))

\* what execute_line hands back: the fields after it, its return value
\* (a delay was hit) and the exception that left it, "none" if it returned
Returns(self, ret) == [self |-> self, ret |-> ret, exc |-> "none"]

Throws(self, exc) == [self |-> self, ret |-> FALSE, exc |-> exc]

\* a binding made in a new dictionary, which drops the other variables
BindAlone(self, var_name, value) ==
    [self EXCEPT !.variables = [x \in {var_name} |-> value]]

\* self.variables[var_name] = value
Bind(self, var_name, value) ==
    [self EXCEPT !.variables =
        [x \in DOMAIN self.variables \cup {var_name} |->
            IF x = var_name THEN value ELSE self.variables[x]]]

\* a scan that reads every line left, END IF or not
ScanToEnd(program_lines, pc) == Len(program_lines)

\* a scan that counts one line more than it read when no END IF was found
ScanEndIfPast(program_lines, pc) ==
    IF \E i \in (pc + 1)..Len(program_lines) : Upper(Strip(program_lines[i])) = K_ENDIF
    THEN CHOOSE i \in (pc + 1)..Len(program_lines) :
            /\ Upper(Strip(program_lines[i])) = K_ENDIF
            /\ \A j \in (pc + 1)..(i - 1) : Upper(Strip(program_lines[j])) # K_ENDIF
    ELSE IF pc < Len(program_lines) THEN Len(program_lines) + 1 ELSE pc

\* the scan of a false block IF: pc after the lines read, one past the
\* first line that is END IF once stripped and upper-cased
RECURSIVE ScanEndIf(_, _)
ScanEndIf(program_lines, pc) ==
    IF pc < Len(program_lines)
    THEN IF Upper(Strip(program_lines[pc + 1])) = K_ENDIF THEN pc + 1
         ELSE ScanEndIf(program_lines, pc + 1)
    ELSE pc

RECURSIVE execute_line(_, _)

\* a conditional whose EXIT DO leaves the loop at once: the entry is popped
\* and the flag is not set
ExecThenLeaves(self, c, then_part) ==
    IF Truthy(c.v) /\ Upper(then_part) = K_EXITDO
    THEN Returns([c.self EXCEPT !.loop_stack = SubSeq(@, 1, Len(@) - 1)], FALSE)
    ELSE Returns(c.self, FALSE)

\* the branches of IF once the condition is evaluated: c is [self, v]
ExecThen(self, c, then_part) ==
    CASE Truthy(c.v) /\ Upper(then_part) = K_EXITDO ->
            Returns([c.self EXCEPT !.exit_loop = TRUE], FALSE)
      [] Truthy(c.v) /\ then_part # <<>> ->
            [execute_line(c.self, then_part) EXCEPT !.ret = FALSE]
      [] ~Truthy(c.v) /\ then_part = <<>> ->
            Returns([c.self EXCEPT !.pc = ScanEndIf(self.program_lines, self.pc)], FALSE)
      [] OTHER -> Returns(c.self, FALSE)

\* IF ... THEN
ExecIf(self, line) ==
    With(Split1(line, K_THEN), LAMBDA parts :
        CASE ~Contains(Upper(line), K_THEN) -> Returns(self, FALSE)
          [] Len(parts) < 2 -> Throws(self, "IndexError")
          [] OTHER -> ExecThen(self, eval_expr(self, Strip(From(parts[1], 2))),
                               Strip(parts[2])))

\* a DO that pushes its own index
ExecDoSelf(self) == Returns([self EXCEPT !.loop_stack = Append(@, self.pc - 1)], FALSE)

\* DO
ExecDo(self) == Returns([self EXCEPT !.loop_stack = Append(@, self.pc)], FALSE)

\* a LOOP that falls through to the line after it
ExecLoopFallsThrough(self) == Returns([self EXCEPT !.exit_loop = FALSE], FALSE)

\* LOOP
ExecLoop(self) ==
    LET top == self.loop_stack[Len(self.loop_stack)]
        popped == SubSeq(self.loop_stack, 1, Len(self.loop_stack) - 1)
    IN  IF self.exit_loop
        THEN IF self.loop_stack # <<>>
             THEN Returns([self EXCEPT !.pc = top, !.loop_stack = popped,
                                       !.exit_loop = FALSE], FALSE)
             ELSE Returns([self EXCEPT !.exit_loop = FALSE], FALSE)
        ELSE IF self.loop_stack # <<>>
             THEN Returns([self EXCEPT !.pc = top], FALSE)
             ELSE Returns(self, FALSE)

\* SCREEN
ExecScreen(self, line) ==
    With(SplitWhite(line), LAMBDA parts :
        IF Len(parts) >= 2 /\ parts[2] = <<"1","3">>
        THEN Returns([self EXCEPT !.surface = NewSurface(screen_width, screen_height)], FALSE)
        ELSE Returns(self, FALSE))

\* CLS
ExecCls(self) ==
    IF self.surface.exists
    THEN Returns([self EXCEPT !.surface = FillBlack(@)], FALSE)
    ELSE Returns(self, FALSE)

\* var, expr = content.split("=", 1); the "$" go from the name
ExecBind(self, content) ==
    With(Split1(content, <<"=">>), LAMBDA parts :
    With(eval_expr(self, Strip(parts[2])), LAMBDA r :
        Returns(Bind(r.self, Replace(Strip(parts[1]), <<"$">>, <<>>), r.v), FALSE)))

\* CONST
ExecConst(self, line) ==
    With(Strip(From(line, 5)), LAMBDA content :
        IF Contains(content, <<"=">>) THEN ExecBind(self, content) ELSE Returns(self, FALSE))

\* assignment (variable = expression)
ExecAssign(self, line) == ExecBind(self, line)

\* int(v) of an evaluation r = [self, v]: [self, n, exc]
IntOf(r) == With(PyInt(r.v), LAMBDA i : [self |-> r.self, n |-> i.n, exc |-> i.exc])

\* LOCATE
ExecLocate(self, line) ==
    With(SplitAll(Strip(From(line, 6)), <<",">>), LAMBDA parts :
        IF Len(parts) < 2 THEN Returns(self, FALSE)
        ELSE With(IntOf(eval_expr(self, Strip(parts[1]))), LAMBDA row :
                IF row.exc # "none" THEN Throws(row.self, row.exc)
                ELSE With(IntOf(eval_expr(row.self, Strip(parts[2]))), LAMBDA col :
                        IF col.exc # "none" THEN Throws(col.self, col.exc)
                        ELSE Returns([col.self EXCEPT !.text_cursor = <<col.n, row.n>>],
                                     FALSE))))

\* the loop of PRINT over the pieces between ";": [self, out_text]
RECURSIVE PrintParts(_, _, _)
PrintParts(self, parts, out_text) ==
    IF parts = <<>> THEN [self |-> self, out_text |-> out_text]
    ELSE IF Strip(Head(parts)) = <<>> THEN PrintParts(self, Tail(parts), out_text)
    ELSE With(eval_expr(self, Strip(Head(parts))), LAMBDA r :
            PrintParts(r.self, Tail(parts), out_text \o PyStr(r.v)))

\* PRINT
ExecPrint(self, line) ==
    With(PrintParts(self, SplitAll(Strip(From(line, 5)), <<";">>), <<>>), LAMBDA p :
        IF p.self.surface.exists
        THEN Returns([p.self EXCEPT
                        !.surface = BlitText(@, p.self.text_cursor[1],
                                             p.self.text_cursor[2], p.out_text),
                        !.text_cursor = <<0, p.self.text_cursor[2] + 1>>], FALSE)
        ELSE Returns(p.self, FALSE))

\* the first exception of a sequence of outcomes, "none" if there is none
RECURSIVE FirstExc(_)
FirstExc(excs) ==
    IF excs = <<>> THEN "none"
    ELSE IF Head(excs) # "none" THEN Head(excs) ELSE FirstExc(Tail(excs))

\* the calls eval_expr(m.group(i).strip()) of a drawing command, in order:
\* [self, vs]
RECURSIVE EvalGroups(_, _)
EvalGroups(self, groups) ==
    IF groups = <<>> THEN [self |-> self, vs |-> <<>>]
    ELSE With(eval_expr(self, Strip(Head(groups))), LAMBDA r :
         With(EvalGroups(r.self, Tail(groups)), LAMBDA more :
            [self |-> more.self, vs |-> <<r.v>> \o more.vs]))

\* pygame.draw.rect(surface, colour, Rect(int(x1), int(y1), int(w), int(h)),
\* width): color, x1, y1 are int() outcomes, w and h those of the subtractions
DrawRect(self, color, x1, y1, w, h, width) ==
    With(FirstExc(<<color.exc, x1.exc, y1.exc, w.exc, h.exc>>), LAMBDA exc :
        IF exc # "none" THEN Throws(self, exc)
        ELSE Returns([self EXCEPT !.surface =
                        Paint(@, Mark("rect", <<x1.n, y1.n, w.v.n, h.v.n, width>>, <<>>,
                                      basic_color(color.n)))], FALSE))

\* the body of LINE under `if m and self.surface`: g holds the five values
LineBody(g, fill) ==
    DrawRect(g.self, PyInt(g.vs[5]), PyInt(g.vs[1]), PyInt(g.vs[2]),
             PySub(g.vs[3], g.vs[1]), PySub(g.vs[4], g.vs[2]),
             IF fill THEN 0 ELSE 1)

\* LINE
ExecLine(self, line) ==
    With(Search(line, LineItems), LAMBDA m :
        IF m.ok /\ self.surface.exists
        THEN LineBody(EvalGroups(self, m.groups), LineFillGroup(m.rest))
        ELSE Returns(self, FALSE))

\* pygame.draw.circle(surface, colour, (int(x), int(y)), int(radius), width):
\* the arguments are int() outcomes
DrawCircle(self, color, x, y, radius, width) ==
    With(FirstExc(<<color.exc, x.exc, y.exc, radius.exc>>), LAMBDA exc :
        IF exc # "none" THEN Throws(self, exc)
        ELSE Returns([self EXCEPT !.surface =
                        Paint(@, Mark("circle", <<x.n, y.n, radius.n, width>>, <<>>,
                                      basic_color(color.n)))], FALSE))

\* the body of CIRCLE under `if m and self.surface`
CircleBody(g) ==
    DrawCircle(g.self, PyInt(g.vs[4]), PyInt(g.vs[1]), PyInt(g.vs[2]), PyInt(g.vs[3]), 1)

\* CIRCLE
ExecCircle(self, line) ==
    With(Search(line, CircleItems), LAMBDA m :
        IF m.ok /\ self.surface.exists THEN CircleBody(EvalGroups(self, m.groups))
        ELSE Returns(self, FALSE))

\* the body of PAINT under `if m and self.surface`: a filled disk of radius 3
PaintBody(g) ==
    DrawCircle(g.self, PyInt(g.vs[3]), PyInt(g.vs[1]), PyInt(g.vs[2]), PyInt(IntV(3)), 0)

\* PAINT
ExecPaint(self, line) ==
    With(Search(line, PaintItems), LAMBDA m :
        IF m.ok /\ self.surface.exists THEN PaintBody(EvalGroups(self, m.groups))
        ELSE Returns(self, FALSE))

\* a _DELAY that returns False, as every other command does
ExecDelayNoYield(self, line) ==
    With(eval_expr(self, Strip(From(line, 6))), LAMBDA r :
        IF PyFloatExc(r.v) # "none" THEN Throws(r.self, PyFloatExc(r.v))
        ELSE Returns(r.self, FALSE))

\* _DELAY
ExecDelay(self, line) ==
    With(eval_expr(self, Strip(From(line, 6))), LAMBDA r :
        IF PyFloatExc(r.v) # "none" THEN Throws(r.self, PyFloatExc(r.v))
        ELSE Returns(r.self, TRUE))

\* END
ExecEnd(self) == Returns([self EXCEPT !.running = FALSE], FALSE)

\* the chain of tests of execute_line on up_line = line.upper()
Dispatch(self, line, up_line) ==
    CASE StartsWith(up_line, <<"I","F">>) -> ExecIf(self, line)
      [] up_line = K_ENDIF -> Returns(self, FALSE)
      [] up_line = <<"D","O">> -> ExecDo(self)
      [] up_line = <<"L","O","O","P">> -> ExecLoop(self)
      [] StartsWith(up_line, <<"S","C","R","E","E","N">>) -> ExecScreen(self, line)
      [] up_line = <<"C","L","S">> -> ExecCls(self)
      [] StartsWith(up_line, <<"C","O","N","S","T">>) -> ExecConst(self, line)
      [] Contains(line, <<"=">>) -> ExecAssign(self, line)
      [] StartsWith(up_line, <<"L","O","C","A","T","E">>) -> ExecLocate(self, line)
      [] StartsWith(up_line, <<"P","R","I","N","T">>) -> ExecPrint(self, line)
      [] StartsWith(up_line, <<"L","I","N","E">>) -> ExecLine(self, line)
      [] StartsWith(up_line, <<"C","I","R","C","L","E">>) -> ExecCircle(self, line)
      [] StartsWith(up_line, <<"P","A","I","N","T">>) -> ExecPaint(self, line)
      [] StartsWith(up_line, <<"_","D","E","L","A","Y">>) -> ExecDelay(self, line)
      [] up_line = <<"E","N","D">> -> ExecEnd(self)
      [] OTHER -> Returns(self, FALSE)

\* execute_line(line): [self, ret, exc]
execute_line(self, line) == Dispatch(self, line, Upper(line))

\* a reset that leaves loop_stack as it finds it
reset_keeps_loop_stack(self, lines) ==
    [self EXCEPT !.program_lines = lines,
                 !.pc = 0,
                 !.variables = <<>>,
                 !.exit_loop = FALSE,
                 !.running = TRUE,
                 !.text_cursor = <<0, 1>>,
                 !.surface = IF self.surface.exists THEN self.surface
                             ELSE NewSurface(screen_width, screen_height)]

\* a reset that empties the key slot as well
reset_clears_last_key(self, lines) ==
    [self EXCEPT !.program_lines = lines,
                 !.pc = 0,
                 !.variables = <<>>,
                 !.loop_stack = <<>>,
                 !.exit_loop = FALSE,
                 !.running = TRUE,
                 !.text_cursor = <<0, 1>>,
                 !.last_key = <<>>,
                 !.surface = IF self.surface.exists THEN self.surface
                             ELSE NewSurface(screen_width, screen_height)]

\* reset(program_lines): the fields after it.  The list is stored, not
\* copied; the surface is created only when there is none.
reset(self, lines) ==
    [self EXCEPT !.program_lines = lines,
                 !.pc = 0,
                 !.variables = <<>>,
                 !.loop_stack = <<>>,
                 !.exit_loop = FALSE,
                 !.running = TRUE,
                 !.text_cursor = <<0, 1>>,
                 !.surface = IF self.surface.exists THEN self.surface
                             ELSE NewSurface(screen_width, screen_height)]

\* chr(0) and chr(27), one character each
NUL == "NUL"

ESC == "ESC"

\* handle_event(event): the last key after it
handle_event(self, event) ==
    IF event.type = "KEYDOWN"
    THEN CASE event.key = "K_UP" -> [self EXCEPT !.last_key = <<NUL, "H">>]
           [] event.key = "K_DOWN" -> [self EXCEPT !.last_key = <<NUL, "P">>]
           [] event.key = "K_ESCAPE" -> [self EXCEPT !.last_key = <<ESC>>]
           [] OTHER -> [self EXCEPT !.last_key = event.unicode]
    ELSE self

\* a loop condition that does not read self.running
step_ignores_running(self) == self.pc < Len(self.program_lines)

\* the condition of the while loop of step
step_continues(self) == self.running /\ self.pc < Len(self.program_lines)

\* line.strip(), then the comment cut: what follows the first quote goes
CutComment(stripped) ==
    IF Contains(stripped, <<"'">>) THEN Strip(Split1(stripped, <<"'">>)[1]) ELSE stripped

\* the outcome of an iteration of step with the line read, pc advanced
Iterate(fetched, line) ==
    IF line = <<>>
    THEN [self |-> fetched, ret |-> FALSE, exc |-> "none", executed |-> FALSE]
    ELSE With(execute_line(fetched, line), LAMBDA r :
            [self |-> r.self, ret |-> r.ret, exc |-> r.exc, executed |-> TRUE])

\* one iteration of the loop of step: [self, ret, exc, executed].  The line
\* is fetched and stripped, pc advanced, the comment cut; a line left empty
\* is skipped, any other is executed.
step_iteration(self) ==
    Iterate([self EXCEPT !.pc = self.pc + 1, !.evals = <<>>],
            CutComment(Strip(self.program_lines[self.pc + 1])))

\* ------------------------------------------------------------------------
\* The interpreter and a caller of it: reset, step and key events in any
\* order, and a caller that edits the list of lines it handed to reset.
\* ------------------------------------------------------------------------

\* the programs run
ProgLoop ==
    <<<<"c","o","u","n","t","e","r"," ","="," ","0">>,
      <<"D","O">>,
      <<"c","o","u","n","t","e","r"," ","="," ","c","o","u","n","t","e","r"," ","+"," ","1">>,
      <<"I","F"," ","c","o","u","n","t","e","r"," ",">","="," ","3"," ",
        "T","H","E","N"," ","E","X","I","T"," ","D","O">>,
      <<"L","O","O","P">>,
      <<"P","R","I","N","T"," ","c","o","u","n","t","e","r">>,
      <<"E","N","D">>>>

ProgDelay(n) ==
    <<<<"_","D","E","L","A","Y"," ">> \o n,
      <<"E","N","D">>>>

\* the arguments of _DELAY tried
DelayArgs == {<<"1">>, <<"2">>}

ProgUnbound ==
    <<<<"x"," ","="," ","5">>,
      <<"y"," ","="," ","f","o","o"," ","+"," ","1">>,
      <<"z"," ","="," ","x"," ","+"," ","1">>,
      <<"w"," ","="," ","1"," ","O","R"," ","f","o","o">>,
      <<"I","F"," ","f","o","o"," ","T","H","E","N">>,
      <<"v"," ","="," ","1">>>>

ProgLower ==
    <<<<"x"," ","="," ","1">>,
      <<"i","f"," ","x"," ","t","h","e","n"," ","y"," ","="," ","1">>,
      <<"E","N","D">>>>

ProgDraw ==
    <<<<"S","C","R","E","E","N"," ","1","3">>,
      <<"D","O">>,
      <<"L","O","C","A","T","E"," ","2",",","3">>,
      <<"P","R","I","N","T"," ","\"","A","\"">>,
      <<"_","D","E","L","A","Y"," ","1">>,
      <<"L","O","O","P">>>>

ProgBlock ==
    <<<<"x"," ","="," ","0">>,
      <<"I","F"," ","x"," ","="," ","1"," ","T","H","E","N">>,
      <<"y"," ","="," ","1">>,
      <<"E","N","D"," ","I","F">>,
      <<"'"," ","c","o","m","m","e","n","t">>,
      <<"z"," ","="," ","2">>,
      <<"E","N","D">>>>

ProgShapes ==
    <<<<"L","I","N","E"," ","(","1",",","2",")","-","(","3","0",",","4","0",")",",","4",",","B","F">>,
      <<"C","I","R","C","L","E"," ","(","1","0",",","1","0",")",",","5",",","2">>,
      <<"P","A","I","N","T"," ","(","1","0",",","1","0",")",",","2">>,
      <<"C","L","S">>,
      <<"L","O","C","A","T","E"," ","\"","a","\"",",","1">>,
      <<"E","N","D">>>>

\* assignments, and drawing commands whose arguments do not match
ProgStmts ==
    <<<<"y"," ","="," ","2">>,
      <<"x"," ","="," ","5">>,
      <<"x"," ","="," ","5">>,
      <<"L","I","N","E"," ","(","1",",","2",")","-","(","3",",","4",")">>,
      <<"C","I","R","C","L","E"," ","(","1",",","2",")",",","3">>,
      <<"P","A","I","N","T"," ","5">>,
      <<"P","A","I","N","T"," ","q"," ","="," ","1">>,
      <<"x"," ","="," ","x"," ","+"," ","1">>,
      <<"x"," ","="," ","x"," ","+"," ","1">>,
      <<"E","N","D">>>>

\* a loop that reads the keyboard once a frame
ProgKeys ==
    <<<<"D","O">>,
      <<"k","$"," ","="," ","I","N","K","E","Y","$">>,
      <<"_","D","E","L","A","Y"," ","1">>,
      <<"L","O","O","P">>>>

\* a loop inside a loop, each left with EXIT DO
ProgNested ==
    <<<<"n"," ","="," ","0">>,
      <<"D","O">>,
      <<"n"," ","="," ","n"," ","+"," ","1">>,
      <<"D","O">>,
      <<"I","F"," ","n"," ",">","="," ","1"," ","T","H","E","N"," ","E","X","I","T"," ","D","O">>,
      <<"L","O","O","P">>,
      <<"m"," ","="," ","1">>,
      <<"I","F"," ","n"," ",">","="," ","2"," ","T","H","E","N"," ","E","X","I","T"," ","D","O">>,
      <<"L","O","O","P">>,
      <<"E","N","D">>>>

\* false block conditionals: one with a conditional inside, one never closed
ProgIfs ==
    <<<<"x"," ","="," ","0">>,
      <<"I","F"," ","x"," ","="," ","1"," ","T","H","E","N">>,
      <<"I","F"," ","x"," ","="," ","0"," ","T","H","E","N">>,
      <<"y"," ","="," ","1">>,
      <<"E","N","D"," ","I","F">>,
      <<"z"," ","="," ","2">>,
      <<"E","N","D"," ","I","F">>,
      <<"I","F"," ","x"," ","="," ","2"," ","T","H","E","N">>,
      <<"w"," ","="," ","1">>>>

\* a delay as the THEN-part of a one-line conditional
ProgYield ==
    <<<<"x"," ","="," ","1">>,
      <<"I","F"," ","x"," ","T","H","E","N"," ","_","D","E","L","A","Y"," ","1">>,
      <<"y"," ","="," ","1">>,
      <<"_","D","E","L","A","Y"," ","1">>,
      <<"E","N","D">>>>

\* text output whose argument holds an "="
ProgPrint ==
    <<<<"x"," ","="," ","2">>,
      <<"P","R","I","N","T"," ","x">>,
      <<"P","R","I","N","T"," ","x"," ","="," ","1">>,
      <<"L","O","C","A","T","E"," ","2",",","3">>,
      <<"P","R","I","N","T"," ","\"","a","=","b","\"">>,
      <<"E","N","D">>>>

\* the keyboard read inside a comparison, once a frame
ProgInkey ==
    <<<<"D","O">>,
      <<"I","F"," ","I","N","K","E","Y","$"," ","="," ","\"","w","\""," ","T","H","E","N"," ","x"," ","="," ","1">>,
      <<"_","D","E","L","A","Y"," ","1">>,
      <<"L","O","O","P">>>>

\* a loop whose body has no delay, no END and no EXIT DO
ProgSpin ==
    <<<<"D","O">>,
      <<"x"," ","="," ","1">>,
      <<"L","O","O","P">>,
      <<"E","N","D">>>>

\* a line between the EXIT DO conditional and the LOOP of its loop
ProgExit ==
    <<<<"n"," ","="," ","0">>,
      <<"D","O">>,
      <<"n"," ","="," ","n"," ","+"," ","1">>,
      <<"I","F"," ","n"," ",">","="," ","1"," ","T","H","E","N"," ","E","X","I","T"," ","D","O">>,
      <<"m"," ","="," ","5">>,
      <<"L","O","O","P">>,
      <<"E","N","D">>>>

\* a false block conditional whose END IF carries a comment
ProgMarked ==
    <<<<"x"," ","="," ","0">>,
      <<"I","F"," ","x"," ","="," ","1"," ","T","H","E","N">>,
      <<"y"," ","="," ","1">>,
      <<"E","N","D"," ","I","F"," ","'"," ","d","o","n","e">>,
      <<"z"," ","="," ","2">>,
      <<"E","N","D">>>>

\* the programs run to follow the dispatch of a line
DispatchPrograms ==
    {ProgNested, ProgIfs, ProgYield, ProgPrint, ProgInkey, ProgSpin, ProgExit,
     ProgMarked}

Programs ==
    {ProgLoop, ProgUnbound, ProgLower, ProgDraw, ProgBlock, ProgShapes,
     ProgStmts, ProgKeys}
        \cup {ProgDelay(n) : n \in DelayArgs}

\* the lines a caller writes over a line of its list
EditLines == {<<"x"," ","="," ","7">>, <<"E","N","D">>}

\* the events the host delivers
Events ==
    {[type |-> "KEYDOWN", key |-> "K_UP", unicode |-> <<>>],
     [type |-> "KEYDOWN", key |-> "K_DOWN", unicode |-> <<>>],
     [type |-> "KEYDOWN", key |-> "K_LEFT", unicode |-> <<>>],
     [type |-> "KEYDOWN", key |-> "K_ESCAPE", unicode |-> <<ESC>>],
     [type |-> "KEYDOWN", key |-> "K_w", unicode |-> <<"w">>],
     [type |-> "KEYUP", key |-> "K_w", unicode |-> <<>>]}

\* in-place edits a caller makes to one list
MaxEdits == 1

\* the largest number a variable reaches, and the lowest text row, before
\* the model stops following a run
MaxCount == 6

MaxRow == 4

\* step calls counted since reset, and executed lines remembered
MaxCalls == 3

MaxTrace == 4

VARIABLES
    program_lines,  \* self.program_lines
    pc,             \* self.pc
    variables,      \* self.variables
    loop_stack,     \* self.loop_stack
    exit_loop,      \* self.exit_loop
    running,        \* self.running
    text_cursor,    \* self.text_cursor, (col, row)
    surface,        \* self.surface
    last_key,       \* self.last_key
    caller_lines,   \* the caller's list of lines (editor.lines)
    shared,         \* self.program_lines is the caller's list object
    in_step,        \* a call of step is inside its loop
    exc,            \* the exception that left the last call of step
    last_op,        \* the operation that led to this state
    before_reset,   \* the fields as the last reset found them
    snapshot,       \* the lines as they were when reset received them
    edited,         \* the caller edited its list since the last reset
    edits,          \* in-place edits made so far
    calls,          \* calls of step since the last reset, up to MaxCalls
    trace,          \* indices of the last lines executed since the reset
    fetched,        \* the line the last iteration of step fetched
    evals,          \* the calls of eval_expr of the last line executed
    before_line,    \* the fields as the last iteration of step found them
    last_event,     \* the event the last call of handle_event received
    editor,         \* the fields of a TextEditor
    ed_before,      \* the fields as the last call of input found them
    ed_handled,     \* the fields as the handler called by input left them
    ed_event,       \* the event the last call of input received
    keys,           \* calls of input so far
    conv_in,        \* the pieces of an expression handed to the translator
    conv_out,       \* the translation returned, once it has returned
    current_mode,   \* main: current_mode
    prev_mode,      \* main: prev_mode
    current_size,   \* main: (current_width, current_height)
    host_running,   \* main: running
    host_at,        \* main: where the frame is
    received,       \* the mode in which the editor or console last got an event
    entered_run,    \* a click of this frame changed the mode from non-run to run
    reset_called,   \* this frame has called reset
    out_of_run,     \* the mode has been other than run since the last reset
    cw,             \* the fields of a TextEditor of codewizard.py
    cw_before,      \* the fields as the last event found them
    cw_event,       \* the last event handled
    cw_before2,     \* the fields as the event before the last found them
    cw_event2,      \* the event handled before the last
    cw_count        \* events handled so far

engine == <<program_lines, pc, variables, loop_stack, exit_loop, running,
            text_cursor, surface, last_key>>

\* the interpreter and its caller
basic_vars == <<program_lines, pc, variables, loop_stack, exit_loop, running,
                text_cursor, surface, last_key, caller_lines, shared, in_step,
                exc, last_op, before_reset, snapshot, edited, edits, calls,
                trace, fetched, evals, before_line, last_event>>

\* the text editor
editor_vars == <<editor, ed_before, ed_handled, ed_event, keys>>

\* the translator of expressions
conv_vars == <<conv_in, conv_out>>

\* the host loop
host_vars == <<current_mode, prev_mode, current_size, host_running, host_at,
               received, entered_run, reset_called, out_of_run>>

\* the text editor of codewizard.py
undo_vars == <<cw, cw_before, cw_event, cw_before2, cw_event2, cw_count>>

vars == <<basic_vars, editor_vars, conv_vars, host_vars, undo_vars>>

\* the fields of the interpreter in the current state
Self ==
    [program_lines |-> program_lines, pc |-> pc, variables |-> variables,
     loop_stack |-> loop_stack, exit_loop |-> exit_loop, running |-> running,
     text_cursor |-> text_cursor, surface |-> surface, last_key |-> last_key,
     evals |-> evals]

\* the next state has the fields of the record s
Becomes(s) ==
    /\ pc' = s.pc
    /\ variables' = s.variables
    /\ loop_stack' = s.loop_stack
    /\ exit_loop' = s.exit_loop
    /\ running' = s.running
    /\ text_cursor' = s.text_cursor
    /\ surface' = s.surface
    /\ last_key' = s.last_key
    /\ evals' = s.evals

\* BasicInterpreter.__init__
Fresh ==
    [program_lines |-> <<>>, pc |-> 0, variables |-> <<>>, loop_stack |-> <<>>,
     exit_loop |-> FALSE, running |-> TRUE, text_cursor |-> <<0, 1>>,
     surface |-> NoSurface, last_key |-> <<>>, evals |-> <<>>]

NoFetch == [idx |-> -1, text |-> <<>>]

NoEvent == [type |-> "none", key |-> "none", unicode |-> <<>>]

\* no key event has reached the editor
NoKey ==
    [key |-> "none", unicode |-> <<>>, shift |-> FALSE, cmd |-> FALSE,
     visible |-> 0]

\* TextEditor.__init__
NewEditor ==
    [lines |-> <<<<>>>>, current_line |-> 0, cursor_pos |-> 0,
     selection_start |-> <<>>, selection_end |-> <<>>]

\* no editor is used
EditorIdle ==
    /\ editor = NewEditor
    /\ ed_before = NewEditor
    /\ ed_handled = NewEditor
    /\ ed_event = NoKey
    /\ keys = 0

\* no expression is translated
ConvIdle ==
    /\ conv_in = <<>>
    /\ conv_out = <<>>

\* no event handled yet
CwNoEvent ==
    [type |-> "none", key |-> "none", ctrl |-> FALSE, shift |-> FALSE,
     text |-> <<>>, button |-> 0]

\* TextEditor.__init__ of codewizard.py on these lines, the cursor at pos,
\* the system clipboard holding clip
CwEditor(lines, pos, clip) ==
    [lines |-> lines, current_line |-> pos[1], cursor_pos |-> pos[2],
     selection_start |-> <<>>, selection_end |-> <<>>,
     undo_stack |-> <<>>, redo_stack |-> <<>>,
     drawing_surface |-> 0, drawing_in_progress |-> FALSE,
     left_button_down |-> FALSE, right_button_down |-> FALSE,
     last_pos |-> FALSE, clipboard |-> clip, trimmed |-> FALSE,
     raised |-> FALSE]

\* no editor of codewizard.py is used
UndoIdle ==
    /\ cw = CwEditor(<<<<>>>>, <<0, 0>>, <<<<>>>>)
    /\ cw_before = cw
    /\ cw_event = CwNoEvent
    /\ cw_before2 = cw
    /\ cw_event2 = CwNoEvent
    /\ cw_count = 0

INITIAL_WIDTH == 800

INITIAL_HEIGHT == 600

FOOTER_HEIGHT == 40

\* main, before its loop: the mode is text
HostStart ==
    /\ current_mode = "text"
    /\ prev_mode = "text"
    /\ current_size = <<INITIAL_WIDTH, INITIAL_HEIGHT>>
    /\ host_running = TRUE
    /\ host_at = "events"
    /\ received = "none"
    /\ entered_run = FALSE
    /\ reset_called = FALSE
    /\ out_of_run = TRUE

\* BasicInterpreter(), before any call
Constructed ==
    /\ program_lines = Fresh.program_lines
    /\ pc = Fresh.pc
    /\ variables = Fresh.variables
    /\ loop_stack = Fresh.loop_stack
    /\ exit_loop = Fresh.exit_loop
    /\ running = Fresh.running
    /\ text_cursor = Fresh.text_cursor
    /\ surface = Fresh.surface
    /\ last_key = Fresh.last_key
    /\ evals = Fresh.evals
    /\ shared = FALSE
    /\ in_step = FALSE
    /\ exc = "none"
    /\ last_op = "init"
    /\ before_reset = Fresh
    /\ snapshot = <<>>
    /\ edited = FALSE
    /\ edits = 0
    /\ calls = 0
    /\ trace = <<>>
    /\ fetched = NoFetch
    /\ before_line = Fresh
    /\ last_event = NoEvent

Init ==
    /\ Constructed
    /\ caller_lines \in Programs
    /\ EditorIdle
    /\ ConvIdle
    /\ HostStart
    /\ UndoIdle

\* the last n elements of s
LastN(s, n) == IF Len(s) <= n THEN s ELSE SubSeq(s, Len(s) - n + 1, Len(s))

\* interpreter.reset(editor.lines), between two calls of step
DoReset ==
    /\ ~in_step
    /\ Becomes(reset(Self, caller_lines))
    /\ program_lines' = caller_lines
    /\ shared' = TRUE
    /\ before_reset' = Self
    /\ snapshot' = caller_lines
    /\ edited' = FALSE
    /\ calls' = 0
    /\ trace' = <<>>
    /\ fetched' = NoFetch
    /\ last_op' = "reset"
    /\ before_line' = Fresh
    /\ last_event' = NoEvent
    /\ UNCHANGED <<caller_lines, in_step, exc, edits, editor_vars, conv_vars>>

Reset == DoReset /\ UNCHANGED <<host_vars, undo_vars>>

\* interpreter.handle_event(event), between two calls of step
Notified(event) ==
    /\ ~in_step
    /\ Becomes(handle_event(Self, event))
    /\ last_event' = event
    /\ last_op' = "event"
    /\ before_reset' = Fresh
    /\ before_line' = Fresh
    /\ UNCHANGED <<program_lines, caller_lines, shared, in_step, exc, snapshot,
                   edited, edits, calls, trace, fetched, editor_vars, conv_vars>>

HandleEvent == (\E event \in Events : Notified(event)) /\ UNCHANGED <<host_vars, undo_vars>>

\* the caller's list after an edit; the interpreter's list is the same
\* object once reset has stored it
Written(lines) ==
    /\ ~in_step
    /\ edits < MaxEdits
    /\ caller_lines' = lines
    /\ program_lines' = IF shared THEN lines ELSE program_lines
    /\ edits' = edits + 1
    /\ edited' = TRUE
    /\ last_op' = "edit"
    /\ before_reset' = Fresh
    /\ before_line' = Fresh
    /\ last_event' = NoEvent
    /\ UNCHANGED <<pc, variables, loop_stack, exit_loop, running, text_cursor,
                   surface, last_key, evals, shared, in_step, exc, snapshot,
                   calls, trace, fetched, editor_vars, conv_vars>>

CallerWrites(lines) == Written(lines) /\ UNCHANGED <<host_vars, undo_vars>>

\* self.lines[i] = text, as the editor's insert_character and the like do
CallerSetLine ==
    \E i \in DOMAIN caller_lines, text \in EditLines :
        /\ caller_lines[i] # text
        /\ CallerWrites([caller_lines EXCEPT ![i] = text])

\* del self.lines[i], as the editor's backspace at the start of a line does
CallerDelLine ==
    \E i \in DOMAIN caller_lines :
        CallerWrites(SubSeq(caller_lines, 1, i - 1)
                        \o SubSeq(caller_lines, i + 1, Len(caller_lines)))

\* interpreter.step() is called
DoStepCall ==
    /\ ~in_step
    /\ in_step' = TRUE
    /\ exc' = "none"
    /\ calls' = IF calls < MaxCalls THEN calls + 1 ELSE calls
    /\ last_op' = "call"
    /\ before_reset' = Fresh
    /\ before_line' = Fresh
    /\ last_event' = NoEvent
    /\ UNCHANGED <<engine, caller_lines, shared, snapshot, edited, edits, trace,
                   fetched, evals, editor_vars, conv_vars>>

StepCall == DoStepCall /\ UNCHANGED <<host_vars, undo_vars>>

\* the run stays within the numbers and rows the model follows
WithinBounds ==
    /\ \A x \in DOMAIN variables : variables[x].n <= MaxCount
    /\ text_cursor[2] <= MaxRow

\* the state after an iteration of the loop of step whose outcome is r
Iterated(r) ==
    /\ Becomes(r.self)
    /\ in_step' = (r.exc = "none" /\ ~r.ret)
    /\ exc' = r.exc
    /\ trace' = IF r.executed THEN LastN(Append(trace, pc), MaxTrace) ELSE trace
    /\ last_op' = CASE ~r.executed -> "skip"
                    [] r.exc # "none" -> "raise"
                    [] r.ret -> "yield"
                    [] OTHER -> "line"

\* one iteration of the loop of step
StepLine ==
    /\ in_step
    /\ step_continues(Self)
    /\ WithinBounds
    /\ Iterated(step_iteration(Self))
    /\ fetched' = [idx |-> pc, text |-> program_lines[pc + 1]]
    /\ before_reset' = Fresh
    /\ before_line' = Self
    /\ last_event' = NoEvent
    /\ UNCHANGED <<program_lines, caller_lines, shared, snapshot, edited, edits,
                   calls, editor_vars, conv_vars, host_vars, undo_vars>>

\* the loop of step ends: its condition is false
StepReturn ==
    /\ in_step
    /\ ~step_continues(Self)
    /\ in_step' = FALSE
    /\ last_op' = "return"
    /\ before_reset' = Fresh
    /\ before_line' = Fresh
    /\ last_event' = NoEvent
    /\ UNCHANGED <<engine, caller_lines, shared, exc, snapshot, edited, edits,
                   calls, trace, fetched, evals, editor_vars, conv_vars,
                   host_vars, undo_vars>>

Next ==
    \/ Reset
    \/ HandleEvent
    \/ CallerSetLine
    \/ CallerDelLine
    \/ StepCall
    \/ StepLine
    \/ StepReturn

Spec == Init /\ [][Next]_vars

DispatchInit ==
    /\ Constructed
    /\ caller_lines \in DispatchPrograms
    /\ EditorIdle
    /\ ConvIdle
    /\ HostStart
    /\ UndoIdle

DispatchSpec == DispatchInit /\ [][Next]_vars

\* ------------------------------------------------------------------------
\* The host loop of main: events routed by the mode, reset on entering
\* run, one call of step a frame
\* ------------------------------------------------------------------------

\* a program that suspends once and halts
ProgHost ==
    <<<<"_","D","E","L","A","Y"," ","1">>,
      <<"E","N","D">>>>

\* the programs in the editor when the host starts
HostPrograms == {ProgHost}

\* the keys pressed while the host runs
HostKeys == {e \in Events : e.key = "K_w"}

MouseTypes == {"MOUSEBUTTONDOWN", "MOUSEBUTTONUP", "MOUSEMOTION"}

\* the sizes a window takes
HostSizes ==
    {<<INITIAL_WIDTH, INITIAL_HEIGHT>>, <<INITIAL_WIDTH \div 2, INITIAL_HEIGHT \div 2>>}

\* the events of a frame in a window of this size: quit, resize, the mouse
\* on each footer button and above the footer, keys
HostEvents(size) ==
    {[type |-> "QUIT"]}
    \cup {[type |-> "VIDEORESIZE", w |-> sz[1], h |-> sz[2]] : sz \in HostSizes}
    \cup {[type |-> t, pos |-> <<x, y>>] :
            t \in MouseTypes,
            x \in {0, size[1] \div 3, 2 * (size[1] \div 3)},
            y \in {0, size[2] - FOOTER_HEIGHT}}
    \cup HostKeys

\* the mouse is on the footer
InFooter(event, size) ==
    event.type \in MouseTypes /\ event.pos[2] >= size[2] - FOOTER_HEIGHT

\* the mode of the footer button at x
FooterButton(x, width) ==
    IF x < width \div 3 THEN "text"
    ELSE IF x < 2 * (width \div 3) THEN "run"
    ELSE "console"

\* current_mode after the event
ClickedMode(mode, event, size) ==
    IF event.type = "MOUSEBUTTONDOWN" /\ InFooter(event, size)
    THEN FooterButton(event.pos[1], size[1])
    ELSE mode

\* keys and the mouse go to the editor whatever the mode is
ReceiverEditor(mode, event, size) ==
    CASE event.type \in {"QUIT", "VIDEORESIZE"} -> "host"
      [] InFooter(event, size) -> "footer"
      [] OTHER -> "editor"

\* who handles the event: the host itself, the footer, or the object
\* whose handle_event is called, "none" when no branch takes it
Receiver(mode, event, size) ==
    CASE event.type \in {"QUIT", "VIDEORESIZE"} -> "host"
      [] InFooter(event, size) -> "footer"
      [] event.type \in MouseTypes ->
            IF mode = "text" THEN "editor"
            ELSE IF mode = "console" THEN "console"
            ELSE "none"
      [] OTHER ->
            IF mode = "text" THEN "editor"
            ELSE IF mode = "console" THEN "console"
            ELSE IF mode = "run" THEN "interpreter"
            ELSE "none"

\* reset is due after the events of a frame
ResetDue(mode, prev) == mode = "run" /\ prev # "run"

\* prev_mode after the events of a frame
SyncedPrev(mode, prev) ==
    IF ResetDue(mode, prev) THEN mode
    ELSE IF mode # "run" THEN mode
    ELSE prev

HostInit ==
    /\ Constructed
    /\ caller_lines \in HostPrograms
    /\ EditorIdle
    /\ ConvIdle
    /\ HostStart
    /\ UndoIdle

\* editor.handle_event(event): the lines stay, or one is set or deleted
EditorHandles ==
    \/ UNCHANGED basic_vars
    \/ \E i \in DOMAIN caller_lines, text \in EditLines :
            /\ caller_lines[i] # text
            /\ Written([caller_lines EXCEPT ![i] = text])
    \/ \E i \in DOMAIN caller_lines :
            Written(SubSeq(caller_lines, 1, i - 1)
                        \o SubSeq(caller_lines, i + 1, Len(caller_lines)))

\* one event of pygame.event.get() is handled
HostEvent ==
    /\ host_at = "events"
    /\ \E event \in HostEvents(current_size) :
        /\ current_mode' = ClickedMode(current_mode, event, current_size)
        /\ host_running' = (host_running /\ event.type # "QUIT")
        /\ current_size' = IF event.type = "VIDEORESIZE" THEN <<event.w, event.h>>
                           ELSE current_size
        /\ received' = IF Receiver(current_mode, event, current_size)
                            \in {"editor", "console"}
                       THEN current_mode ELSE received
        /\ entered_run' = (entered_run \/ (current_mode # "run" /\ current_mode' = "run"))
        /\ out_of_run' = (out_of_run \/ current_mode' # "run")
        /\ CASE Receiver(current_mode, event, current_size) = "interpreter" ->
                    Notified(event)
             [] Receiver(current_mode, event, current_size) = "editor" ->
                    EditorHandles
             [] OTHER -> UNCHANGED basic_vars
    /\ UNCHANGED <<prev_mode, host_at, reset_called, editor_vars, conv_vars,
                   undo_vars>>

\* the events of the frame are handled: reset if run was entered
HostSync ==
    /\ host_at = "events"
    /\ host_at' = "draw"
    /\ prev_mode' = SyncedPrev(current_mode, prev_mode)
    /\ reset_called' = ResetDue(current_mode, prev_mode)
    /\ out_of_run' = (out_of_run /\ ~ResetDue(current_mode, prev_mode))
    /\ IF ResetDue(current_mode, prev_mode) THEN DoReset ELSE UNCHANGED basic_vars
    /\ UNCHANGED <<current_mode, current_size, host_running, received, entered_run,
                   editor_vars, conv_vars, undo_vars>>

\* the frame is over: the next one starts, or the loop ends
FrameEnds ==
    /\ host_at' = IF host_running THEN "events" ELSE "quit"
    /\ entered_run' = FALSE
    /\ reset_called' = FALSE
    /\ UNCHANGED <<current_mode, prev_mode, current_size, host_running, received,
                   out_of_run>>

\* the main area is drawn: in run mode step is called if the program runs
HostDraw ==
    /\ host_at = "draw"
    /\ IF current_mode = "run" /\ running
       THEN /\ DoStepCall
            /\ host_at' = "step"
            /\ UNCHANGED <<current_mode, prev_mode, current_size, host_running,
                           received, entered_run, reset_called, out_of_run,
                           undo_vars>>
       ELSE /\ FrameEnds
            /\ UNCHANGED <<basic_vars, editor_vars, conv_vars, undo_vars>>

\* step has returned to the host
HostResumes ==
    /\ host_at = "step"
    /\ ~in_step
    /\ exc = "none"
    /\ FrameEnds
    /\ UNCHANGED <<basic_vars, editor_vars, conv_vars, undo_vars>>

HostNext ==
    \/ HostEvent
    \/ HostSync
    \/ HostDraw
    \/ StepLine
    \/ StepReturn
    \/ HostResumes

HostSpec == HostInit /\ [][HostNext]_vars

\* ------------------------------------------------------------------------
\* The translator on its own: convert_basic_expr applied to conditions
\* ------------------------------------------------------------------------

MaxClauses == 2

ConvNames == {<<"a">>, <<"b","$">>}

ConvLiterals == {<<"1">>, <<"\"","w","\"">>}

T_EQ == <<" ","="," ">>
T_EQTIGHT == <<"=">>
T_LE == <<" ","<","="," ">>
T_GE == <<" ",">","="," ">>
T_NE == <<" ","!","="," ">>
T_EQEQ == <<" ","=","="," ">>
T_LT == <<" ","<"," ">>
T_AND == <<" ","A","N","D"," ">>
T_OR == <<" ","O","R"," ">>

ConvCompares == {T_EQ, T_EQTIGHT, T_LE, T_GE, T_NE, T_EQEQ, T_LT}

ConvJoins == {T_AND, T_OR}

\* a comparison as its three pieces: name, operator, literal
ConvClauses ==
    {<<n, c, l>> : n \in ConvNames, c \in ConvCompares, l \in ConvLiterals}

\* the conditions of at most n comparisons, each as its sequence of pieces
RECURSIVE ConvConditions(_)
ConvConditions(n) ==
    IF n <= 1 THEN ConvClauses
    ELSE ConvConditions(n - 1) \cup
         {p \o <<j>> \o c : p \in ConvConditions(n - 1), j \in ConvJoins,
                            c \in ConvClauses}

ConvInit ==
    /\ Constructed
    /\ caller_lines = <<>>
    /\ EditorIdle
    /\ HostStart
    /\ UndoIdle
    /\ conv_in \in ConvConditions(MaxClauses)
    /\ conv_out = <<>>

\* conv_expr = convert_basic_expr(expr)
Convert ==
    /\ conv_out' = convert_basic_expr(Concat(conv_in))
    /\ UNCHANGED <<conv_in, basic_vars, editor_vars, host_vars, undo_vars>>

ConvNext == Convert

ConvSpec == ConvInit /\ [][ConvNext]_vars

\* string literals that hold what the translator looks for
ConvQuoted == {<<"\"","w","\"">>, <<"\"","x","=","y","\"">>, <<"\"","a"," ","O","R"," ","b","\"">>, <<"\"","k","$","\"">>}

\* a comparison of a name with one of these literals
QuotedClauses ==
    {<<n, c, l>> : n \in ConvNames, c \in ConvCompares, l \in ConvQuoted}

\* one such comparison, or two joined
QuotedConditions ==
    QuotedClauses \cup
    {p \o <<j>> \o c : p \in QuotedClauses, j \in ConvJoins, c \in QuotedClauses}

QuotedInit ==
    /\ Constructed
    /\ caller_lines = <<>>
    /\ EditorIdle
    /\ HostStart
    /\ UndoIdle
    /\ conv_in \in QuotedConditions
    /\ conv_out = <<>>

QuotedSpec == QuotedInit /\ [][ConvNext]_vars

\* ------------------------------------------------------------------------
\* TextEditor (text_editor.py): the key handlers
\*
\* An editor is the record of lines, current_line, cursor_pos,
\* selection_start and selection_end; None is <<>> and a position is
\* <<line, pos>>, both counted from 0 as in the source. The undo and redo
\* stacks and the two scroll offsets are written by the handlers but read
\* by none of them, and are left out.
\* ------------------------------------------------------------------------

Smaller(a, b) == IF a <= b THEN a ELSE b

Larger(a, b) == IF a >= b THEN a ELSE b

\* s[:n], n >= 0
Before(s, n) == SubSeq(s, 1, Smaller(n, Len(s)))

\* self.lines[i]
LineAt(e, i) == e.lines[i + 1]

\* self.selection_start and self.selection_end
HasSelection(e) == e.selection_start # <<>> /\ e.selection_end # <<>>

Unselected(e) == [e EXCEPT !.selection_start = <<>>, !.selection_end = <<>>]

\* the two branches of delete_selection, endpoints in order and clamped
DeleteRange(e, sl, sp, el, ep) ==
    IF sl = el
    THEN Unselected([e EXCEPT !.lines[sl + 1] = Before(@, sp) \o From(@, ep),
                              !.cursor_pos = sp])
    ELSE Unselected([e EXCEPT
            !.lines = SubSeq(e.lines, 1, sl)
                        \o <<Before(LineAt(e, sl), sp) \o From(LineAt(e, el), ep)>>
                        \o SubSeq(e.lines, el + 2, Len(e.lines)),
            !.cursor_pos = sp,
            !.current_line = sl])

\* start_pos = min(start_pos, len(...)); end_pos = min(end_pos, len(...))
DeleteClamped(e, first, last) ==
    DeleteRange(e, first[1], Smaller(first[2], Len(LineAt(e, first[1]))),
                   last[1], Smaller(last[2], Len(LineAt(e, last[1]))))

\* start after end
Swapped(first, last) ==
    first[1] > last[1] \/ (first[1] = last[1] /\ first[2] > last[2])

\* delete_selection with the endpoints taken as they stand
delete_selection_unordered(e) ==
    IF ~HasSelection(e) THEN e
    ELSE DeleteClamped(e, e.selection_start, e.selection_end)

delete_selection(e) ==
    IF ~HasSelection(e) THEN e
    ELSE IF Swapped(e.selection_start, e.selection_end)
         THEN DeleteClamped(e, e.selection_end, e.selection_start)
         ELSE DeleteClamped(e, e.selection_start, e.selection_end)

\* remove_char_at_cursor with the cursor left where it was
remove_char_keeps_cursor(e) ==
    [e EXCEPT !.lines[e.current_line + 1] =
                    Before(@, e.cursor_pos - 1) \o From(@, e.cursor_pos)]

remove_char_at_cursor(e) ==
    [e EXCEPT !.lines[e.current_line + 1] =
                    Before(@, e.cursor_pos - 1) \o From(@, e.cursor_pos),
              !.cursor_pos = @ - 1]

merge_with_previous_line(e) ==
    [e EXCEPT !.cursor_pos = @ + Len(LineAt(e, e.current_line - 1)),
              !.lines = SubSeq(e.lines, 1, e.current_line - 1)
                          \o <<LineAt(e, e.current_line - 1) \o LineAt(e, e.current_line)>>
                          \o SubSeq(e.lines, e.current_line + 2, Len(e.lines)),
              !.current_line = @ - 1]

\* split_line_at_cursor with the whole line kept on the current line
split_line_keeps_tail(e) ==
    [e EXCEPT !.lines = SubSeq(e.lines, 1, e.current_line + 1)
                          \o <<From(LineAt(e, e.current_line), e.cursor_pos)>>
                          \o SubSeq(e.lines, e.current_line + 2, Len(e.lines)),
              !.current_line = @ + 1,
              !.cursor_pos = 0]

split_line_at_cursor(e) ==
    [e EXCEPT !.lines = SubSeq(e.lines, 1, e.current_line)
                          \o <<Before(LineAt(e, e.current_line), e.cursor_pos),
                               From(LineAt(e, e.current_line), e.cursor_pos)>>
                          \o SubSeq(e.lines, e.current_line + 2, Len(e.lines)),
              !.current_line = @ + 1,
              !.cursor_pos = 0]

insert_char_at_cursor(e, char) ==
    [e EXCEPT !.lines[e.current_line + 1] =
                    Before(@, e.cursor_pos) \o char \o From(@, e.cursor_pos),
              !.cursor_pos = @ + 1]

handle_backspace(e) ==
    IF HasSelection(e) THEN delete_selection(e)
    ELSE IF e.cursor_pos > 0 THEN remove_char_at_cursor(e)
    ELSE IF e.current_line > 0 THEN merge_with_previous_line(e)
    ELSE e

handle_return(e) == split_line_at_cursor(e)

handle_delete(e) ==
    IF HasSelection(e) THEN delete_selection(e)
    ELSE IF e.cursor_pos < Len(LineAt(e, e.current_line))
    THEN [e EXCEPT !.lines[e.current_line + 1] =
                        Before(@, e.cursor_pos) \o From(@, e.cursor_pos + 1)]
    ELSE IF e.current_line < Len(e.lines) - 1
    THEN [e EXCEPT !.lines = SubSeq(e.lines, 1, e.current_line)
                        \o <<LineAt(e, e.current_line) \o LineAt(e, e.current_line + 1)>>
                        \o SubSeq(e.lines, e.current_line + 3, Len(e.lines))]
    ELSE e

handle_up(e) ==
    IF e.current_line > 0
    THEN [e EXCEPT !.current_line = @ - 1,
                   !.cursor_pos = Smaller(@, Len(LineAt(e, e.current_line - 1)))]
    ELSE e

handle_down(e) ==
    IF e.current_line < Len(e.lines) - 1
    THEN [e EXCEPT !.current_line = @ + 1,
                   !.cursor_pos = Smaller(@, Len(LineAt(e, e.current_line + 1)))]
    ELSE e

jump_to_end_of_previous_line(e) ==
    [e EXCEPT !.current_line = @ - 1,
              !.cursor_pos = Len(LineAt(e, e.current_line - 1))]

jump_to_start_of_next_line(e) ==
    [e EXCEPT !.current_line = @ + 1, !.cursor_pos = 0]

handle_left(e) ==
    IF e.cursor_pos > 0 THEN [e EXCEPT !.cursor_pos = @ - 1]
    ELSE IF e.current_line > 0 THEN jump_to_end_of_previous_line(e)
    ELSE e

handle_right(e) ==
    IF e.cursor_pos < Len(LineAt(e, e.current_line))
    THEN [e EXCEPT !.cursor_pos = @ + 1]
    ELSE IF e.current_line < Len(e.lines) - 1 THEN jump_to_start_of_next_line(e)
    ELSE e

\* visible_lines is ALTURA // self.font.get_height() at the time of the call
handle_pageup(e, visible_lines) ==
    [e EXCEPT !.current_line = Larger(0, @ - visible_lines)]

\* handle_pagedown without the min
handle_pagedown_unbounded(e, visible_lines) ==
    [e EXCEPT !.current_line = @ + visible_lines]

handle_pagedown(e, visible_lines) ==
    [e EXCEPT !.current_line = Smaller(Len(e.lines) - 1, @ + visible_lines)]

handle_character_input(e, char) ==
    IF char = <<>> THEN e
    ELSE insert_char_at_cursor(delete_selection(e), char)

jump_to_start_of_line(e) == [e EXCEPT !.cursor_pos = 0]

jump_to_end_of_line(e) ==
    [e EXCEPT !.cursor_pos = Len(LineAt(e, e.current_line))]

\* input, the branch of a key pressed with Command or Control
CmdKey(e, event) ==
    CASE event.key = "K_LEFT" -> jump_to_start_of_line(e)
      [] event.key = "K_RIGHT" -> jump_to_end_of_line(e)
      [] OTHER -> e

\* input, the handler the key of the event selects
KeyHandler(e, event) ==
    CASE event.key = "K_BACKSPACE" -> handle_backspace(e)
      [] event.key = "K_RETURN" -> handle_return(e)
      [] event.key = "K_UP" -> handle_up(e)
      [] event.key = "K_DOWN" -> handle_down(e)
      [] event.key = "K_LEFT" -> handle_left(e)
      [] event.key = "K_RIGHT" -> handle_right(e)
      [] event.key = "K_DELETE" -> handle_delete(e)
      [] event.key = "K_PAGEUP" -> handle_pageup(e, event.visible)
      [] event.key = "K_PAGEDOWN" -> handle_pagedown(e, event.visible)
      [] OTHER -> handle_character_input(e, event.unicode)

\* input, after the handler: the selection follows the cursor under Shift
SelectionTail(e, event) ==
    IF event.shift
    THEN [e EXCEPT !.selection_start =
                        IF @ = <<>> THEN <<e.current_line, e.cursor_pos>> ELSE @,
                   !.selection_end = <<e.current_line, e.cursor_pos>>]
    ELSE Unselected(e)

\* the editor after the handler of the event, before the selection is set
Handled(e, event) ==
    IF event.cmd THEN CmdKey(e, event) ELSE KeyHandler(e, event)

input(e, event) ==
    IF event.cmd THEN CmdKey(e, event)
    ELSE SelectionTail(KeyHandler(e, event), event)

\* the number of key events of a behaviour
MaxKeys == 2

\* the largest value drawn for ALTURA // self.font.get_height()
MaxVisible == 2

\* the texts the editor starts from
EdTexts ==
    {<< <<"a","b">> >>,
     << <<"a","b">>, <<"a">> >>,
     << <<"b">>, <<"a","b">>, <<>> >>}

\* the positions of a text
EdPositions(t) ==
    UNION {{<<l, p>> : p \in 0..Len(t[l + 1])} : l \in 0..(Len(t) - 1)}

\* no selection, or one from any position to a position of the cursor's
\* line: Shift with a key leaves selection_end at the cursor, and only
\* Command with K_LEFT or K_RIGHT moves the cursor away from it
EdSelections(t, l) ==
    {<< <<>>, <<>> >>} \cup
    {<<first, last>> : first \in EdPositions(t),
                       last \in {x \in EdPositions(t) : x[1] = l}}

EdState(t, c, sel) ==
    [lines |-> t, current_line |-> c[1], cursor_pos |-> c[2],
     selection_start |-> sel[1], selection_end |-> sel[2]]

EdStart ==
    UNION {UNION {{EdState(t, c, sel) : sel \in EdSelections(t, c[1])}
                  : c \in EdPositions(t)} : t \in EdTexts}

EdChars == {<<"a">>, <<"b">>}

\* the key events: the keys input tells apart, a character key, a key
\* without a character (Shift itself), each with and without Shift, and
\* K_LEFT and K_RIGHT with Command
EdEvents ==
    {[key |-> k, unicode |-> <<>>, shift |-> sh, cmd |-> FALSE, visible |-> 0] :
        k \in {"K_BACKSPACE", "K_RETURN", "K_UP", "K_DOWN", "K_LEFT",
               "K_RIGHT", "K_DELETE", "K_LSHIFT"},
        sh \in BOOLEAN}
    \cup
    {[key |-> k, unicode |-> <<>>, shift |-> sh, cmd |-> FALSE, visible |-> v] :
        k \in {"K_PAGEUP", "K_PAGEDOWN"}, sh \in BOOLEAN, v \in 0..MaxVisible}
    \cup
    {[key |-> "K_a", unicode |-> ch, shift |-> sh, cmd |-> FALSE, visible |-> 0] :
        ch \in EdChars, sh \in BOOLEAN}
    \cup
    {[key |-> k, unicode |-> <<>>, shift |-> sh, cmd |-> TRUE, visible |-> 0] :
        k \in {"K_LEFT", "K_RIGHT"}, sh \in BOOLEAN}

EdInit ==
    /\ Constructed
    /\ caller_lines = <<>>
    /\ ConvIdle
    /\ HostStart
    /\ UndoIdle
    /\ editor \in EdStart
    /\ ed_before = editor
    /\ ed_handled = editor
    /\ ed_event = NoKey
    /\ keys = 0

\* editor.input(event)
Input ==
    /\ keys < MaxKeys
    /\ \E event \in EdEvents :
        /\ editor' = input(editor, event)
        /\ ed_handled' = Handled(editor, event)
        /\ ed_before' = editor
        /\ ed_event' = event
    /\ keys' = keys + 1
    /\ UNCHANGED <<basic_vars, conv_vars, host_vars, undo_vars>>

EdNext == Input

EdSpec == EdInit /\ [][EdNext]_vars

\* ------------------------------------------------------------------------
\* The text editor of codewizard.py: events, the undo and redo stacks.
\* A text is a list of lines; the clipboard holds text.split('\n'), the
\* list of the lines of its text.  Scroll offsets and fonts are left out;
\* the drawing surface is the number of marks on it.
\* ------------------------------------------------------------------------

UNDO_LIMIT == 100

\* (self.lines.copy(), self.current_line, self.cursor_pos, the surface copied)
CwEntry(e) ==
    [lines |-> e.lines, current_line |-> e.current_line,
     cursor_pos |-> e.cursor_pos, drawing_surface |-> e.drawing_surface]

\* an add_to_undo_stack that keeps every state
add_to_undo_stack_unlimited(e) ==
    [e EXCEPT !.undo_stack = Append(@, CwEntry(e)), !.redo_stack = <<>>]

\* add_to_undo_stack; trimmed records that the oldest state was dropped
add_to_undo_stack(e) ==
    With(Append(e.undo_stack, CwEntry(e)), LAMBDA pushed :
        [e EXCEPT !.undo_stack = IF Len(pushed) > UNDO_LIMIT THEN Tail(pushed)
                                 ELSE pushed,
                  !.redo_stack = <<>>,
                  !.trimmed = @ \/ Len(pushed) > UNDO_LIMIT])

\* self.lines, self.current_line, self.cursor_pos, self.drawing_surface = entry
CwRestored(e, entry) ==
    [e EXCEPT !.lines = entry.lines,
              !.current_line = entry.current_line,
              !.cursor_pos = entry.cursor_pos,
              !.drawing_surface = entry.drawing_surface]

\* an undo that does not save the current state for redo
undo_forgets(e) ==
    IF e.undo_stack = <<>> THEN e
    ELSE CwRestored([e EXCEPT !.undo_stack = SubSeq(@, 1, Len(@) - 1)],
                    e.undo_stack[Len(e.undo_stack)])

\* undo
undo(e) ==
    IF e.undo_stack = <<>> THEN e
    ELSE CwRestored([e EXCEPT !.redo_stack = Append(@, CwEntry(e)),
                              !.undo_stack = SubSeq(@, 1, Len(@) - 1)],
                    e.undo_stack[Len(e.undo_stack)])

\* redo
redo(e) ==
    IF e.redo_stack = <<>> THEN e
    ELSE CwRestored([e EXCEPT !.undo_stack = Append(@, CwEntry(e)),
                              !.redo_stack = SubSeq(@, 1, Len(@) - 1)],
                    e.redo_stack[Len(e.redo_stack)])

\* an IndexError leaves the handler
CwRaise(e) == [e EXCEPT !.raised = TRUE]

\* get_selection_range: (start, end) in order
CwRange(e) ==
    IF Swapped(e.selection_start, e.selection_end)
    THEN <<e.selection_end, e.selection_start>>
    ELSE <<e.selection_start, e.selection_end>>

\* both ends of the selection are on lines of the text
CwRangeValid(e) ==
    /\ e.selection_start[1] < Len(e.lines)
    /\ e.selection_end[1] < Len(e.lines)

\* delete_selection of codewizard.py
cw_delete_selection(e) ==
    IF ~HasSelection(e) THEN e
    ELSE IF ~CwRangeValid(e) THEN CwRaise(e)
    ELSE With(CwRange(e), LAMBDA r :
        Unselected([e EXCEPT
            !.lines = IF r[1][1] = r[2][1]
                      THEN [e.lines EXCEPT ![r[1][1] + 1] =
                                Before(@, r[1][2]) \o From(@, r[2][2])]
                      ELSE SubSeq(e.lines, 1, r[1][1])
                            \o <<Before(LineAt(e, r[1][1]), r[1][2])
                                    \o From(LineAt(e, r[2][1]), r[2][2])>>
                            \o SubSeq(e.lines, r[2][1] + 2, Len(e.lines)),
            !.current_line = r[1][1],
            !.cursor_pos = r[1][2]]))

\* get_selected_text, as the list of its lines
get_selected_text(e, first, last) ==
    IF first[1] = last[1]
    THEN <<SubSeq(LineAt(e, first[1]), first[2] + 1, Smaller(last[2], Len(LineAt(e, first[1]))))>>
    ELSE <<From(LineAt(e, first[1]), first[2])>>
            \o SubSeq(e.lines, first[1] + 2, last[1])
            \o <<Before(LineAt(e, last[1]), last[2])>>

\* copy_text
copy_text(e) ==
    IF ~HasSelection(e) THEN e
    ELSE IF ~CwRangeValid(e) THEN CwRaise(e)
    ELSE [e EXCEPT !.clipboard = get_selected_text(e, CwRange(e)[1], CwRange(e)[2])]

\* cut_text
cut_text(e) ==
    IF ~HasSelection(e) THEN e
    ELSE IF copy_text(e).raised THEN copy_text(e)
    ELSE cw_delete_selection(copy_text(e))

\* the lines after text is put in at the cursor of e, which has no selection
CwPasted(e, text) ==
    With(LineAt(e, e.current_line), LAMBDA line :
        [e EXCEPT
            !.lines = SubSeq(e.lines, 1, e.current_line)
                        \o <<Before(line, e.cursor_pos) \o text[1] \o From(line, e.cursor_pos)>>
                        \o Tail(text)
                        \o SubSeq(e.lines, e.current_line + 2, Len(e.lines)),
            !.current_line = @ + Len(text) - 1,
            !.cursor_pos = IF Len(text) > 1 THEN Len(text[Len(text)])
                           ELSE @ + Len(text[1])])

\* paste_text
paste_text(e) ==
    IF cw_delete_selection(e).raised THEN cw_delete_selection(e)
    ELSE CwPasted(cw_delete_selection(e), e.clipboard)

\* insert_character
insert_character(e, char) ==
    IF char = <<>> THEN e
    ELSE IF cw_delete_selection(e).raised THEN cw_delete_selection(e)
    ELSE With(cw_delete_selection(e), LAMBDA d :
        [d EXCEPT !.lines[d.current_line + 1] =
                        Before(@, d.cursor_pos) \o char \o From(@, d.cursor_pos),
                  !.cursor_pos = @ + Len(char)])

\* handle_backspace of codewizard.py
cw_handle_backspace(e) ==
    IF HasSelection(e) THEN cw_delete_selection(e)
    ELSE IF e.cursor_pos > 0
    THEN [e EXCEPT !.lines[e.current_line + 1] =
                        Before(@, e.cursor_pos - 1) \o From(@, e.cursor_pos),
                   !.cursor_pos = @ - 1]
    ELSE IF e.current_line > 0
    THEN [e EXCEPT !.lines = SubSeq(e.lines, 1, e.current_line - 1)
                                \o <<LineAt(e, e.current_line - 1)
                                        \o LineAt(e, e.current_line)>>
                                \o SubSeq(e.lines, e.current_line + 2, Len(e.lines)),
                   !.current_line = @ - 1,
                   !.cursor_pos = Len(LineAt(e, e.current_line - 1))]
    ELSE e

\* handle_delete of codewizard.py
cw_handle_delete(e) ==
    IF HasSelection(e) THEN cw_delete_selection(e)
    ELSE IF e.cursor_pos < Len(LineAt(e, e.current_line))
    THEN [e EXCEPT !.lines[e.current_line + 1] =
                        Before(@, e.cursor_pos) \o From(@, e.cursor_pos + 1)]
    ELSE IF e.current_line < Len(e.lines) - 1
    THEN [e EXCEPT !.lines = SubSeq(e.lines, 1, e.current_line)
                                \o <<LineAt(e, e.current_line)
                                        \o LineAt(e, e.current_line + 1)>>
                                \o SubSeq(e.lines, e.current_line + 3, Len(e.lines))]
    ELSE e

\* handle_return of codewizard.py
cw_handle_return(e) ==
    IF cw_delete_selection(e).raised THEN cw_delete_selection(e)
    ELSE With(cw_delete_selection(e), LAMBDA d :
        [d EXCEPT !.lines = SubSeq(d.lines, 1, d.current_line)
                                \o <<Before(LineAt(d, d.current_line), d.cursor_pos),
                                     From(LineAt(d, d.current_line), d.cursor_pos)>>
                                \o SubSeq(d.lines, d.current_line + 2, Len(d.lines)),
                  !.current_line = @ + 1,
                  !.cursor_pos = 0])

\* the selection before a move: Shift opens one at the cursor if there is
\* none, no Shift clears it
CwAnchored(e, shift_pressed) ==
    IF shift_pressed
    THEN IF e.selection_start = <<>>
         THEN [e EXCEPT !.selection_start = <<e.current_line, e.cursor_pos>>]
         ELSE e
    ELSE Unselected(e)

\* the selection after a move
CwExtended(e, shift_pressed) ==
    IF shift_pressed
    THEN [e EXCEPT !.selection_end = <<e.current_line, e.cursor_pos>>]
    ELSE Unselected(e)

\* the cursor after move_cursor
CwMoved(e, direction) ==
    CASE direction = "K_LEFT" /\ e.cursor_pos > 0 ->
            [e EXCEPT !.cursor_pos = @ - 1]
      [] direction = "K_LEFT" /\ e.cursor_pos <= 0 /\ e.current_line > 0 ->
            [e EXCEPT !.current_line = @ - 1,
                      !.cursor_pos = Len(LineAt(e, e.current_line - 1))]
      [] direction = "K_RIGHT" /\ e.cursor_pos < Len(LineAt(e, e.current_line)) ->
            [e EXCEPT !.cursor_pos = @ + 1]
      [] direction = "K_RIGHT" /\ e.cursor_pos >= Len(LineAt(e, e.current_line))
                               /\ e.current_line < Len(e.lines) - 1 ->
            [e EXCEPT !.current_line = @ + 1, !.cursor_pos = 0]
      [] direction = "K_UP" /\ e.current_line > 0 ->
            [e EXCEPT !.current_line = @ - 1,
                      !.cursor_pos = Smaller(@, Len(LineAt(e, e.current_line - 1)))]
      [] direction = "K_DOWN" /\ e.current_line < Len(e.lines) - 1 ->
            [e EXCEPT !.current_line = @ + 1,
                      !.cursor_pos = Smaller(@, Len(LineAt(e, e.current_line + 1)))]
      [] OTHER -> e

\* move_cursor
move_cursor(e, direction, shift_pressed) ==
    CwExtended(CwMoved(CwAnchored(e, shift_pressed), direction), shift_pressed)

\* move_home
move_home(e, shift_pressed) ==
    CwExtended([CwAnchored(e, shift_pressed) EXCEPT !.cursor_pos = 0], shift_pressed)

\* move_end
move_end(e, shift_pressed) ==
    CwExtended([CwAnchored(e, shift_pressed) EXCEPT
                    !.cursor_pos = Len(LineAt(e, e.current_line))], shift_pressed)

\* the keys before which handle_event records the state
CwRecordedKeys ==
    {"K_BACKSPACE", "K_DELETE", "K_RETURN", "K_HOME", "K_END", "K_PAGEUP",
     "K_PAGEDOWN", "K_LEFT", "K_RIGHT", "K_UP", "K_DOWN"}

\* handle_regular_input; the page keys are not among the events
handle_regular_input(e, event) ==
    CASE event.key = "K_BACKSPACE" -> cw_handle_backspace(e)
      [] event.key = "K_DELETE" -> cw_handle_delete(e)
      [] event.key = "K_RETURN" -> cw_handle_return(e)
      [] event.key = "K_HOME" -> move_home(e, event.shift)
      [] event.key = "K_END" -> move_end(e, event.shift)
      [] event.key \in {"K_LEFT", "K_RIGHT", "K_UP", "K_DOWN"} ->
            move_cursor(e, event.key, event.shift)
      [] OTHER -> e

\* handle_ctrl_shortcuts; K_s saves the file, and K_LEFT and K_RIGHT
\* (move_word) are not among the events
handle_ctrl_shortcuts(e, event) ==
    CASE event.key = "K_c" -> copy_text(e)
      [] event.key = "K_v" -> paste_text(add_to_undo_stack(e))
      [] event.key = "K_x" -> cut_text(add_to_undo_stack(e))
      [] event.key = "K_z" -> IF ~event.shift THEN undo(e) ELSE redo(e)
      [] OTHER -> e

\* MOUSEBUTTONDOWN, Option not held
CwButtonDown(e, button) ==
    IF button \notin {1, 3} THEN e
    ELSE [(IF e.drawing_in_progress THEN e ELSE add_to_undo_stack(e)) EXCEPT
            !.drawing_in_progress = TRUE,
            !.left_button_down = (@ \/ button = 1),
            !.right_button_down = (@ \/ button = 3),
            !.last_pos = TRUE]

\* MOUSEBUTTONUP
CwButtonUp(e, button) ==
    [e EXCEPT !.left_button_down = (@ /\ button # 1),
              !.right_button_down = (@ /\ button # 3),
              !.drawing_in_progress = FALSE,
              !.last_pos = FALSE]

\* handle_mouse_motion: a line drawn is one mark more, the eraser takes
\* the marks under it
handle_mouse_motion(e) ==
    IF (e.left_button_down \/ e.right_button_down) /\ e.last_pos
    THEN [e EXCEPT !.drawing_surface = IF e.left_button_down THEN @ + 1 ELSE 0]
    ELSE e

\* handle_event of codewizard.py
cw_handle_event(e, event) ==
    CASE event.type = "TEXTINPUT" -> insert_character(e, event.text)
      [] event.type = "KEYDOWN" /\ event.ctrl -> handle_ctrl_shortcuts(e, event)
      [] event.type = "KEYDOWN" /\ ~event.ctrl ->
            handle_regular_input(
                IF event.key \in CwRecordedKeys THEN add_to_undo_stack(e) ELSE e,
                event)
      [] event.type = "MOUSEBUTTONDOWN" -> CwButtonDown(e, event.button)
      [] event.type = "MOUSEBUTTONUP" -> CwButtonUp(e, event.button)
      [] event.type = "MOUSEMOTION" -> handle_mouse_motion(e)
      [] OTHER -> e

CwKey(key, ctrl, shift) ==
    [type |-> "KEYDOWN", key |-> key, ctrl |-> ctrl, shift |-> shift,
     text |-> <<>>, button |-> 0]

CwMouse(type, button) ==
    [type |-> type, key |-> "none", ctrl |-> FALSE, shift |-> FALSE,
     text |-> <<>>, button |-> button]

CwUndoKey == CwKey("K_z", TRUE, FALSE)

CwRedoKey == CwKey("K_z", TRUE, TRUE)

\* typed text, the keys that edit, a move with and without Shift, the
\* clipboard and undo shortcuts, a stroke of the left button
CwEvents ==
    {[type |-> "TEXTINPUT", key |-> "none", ctrl |-> FALSE, shift |-> FALSE,
      text |-> <<"a">>, button |-> 0]}
    \cup {CwKey(k, FALSE, FALSE) : k \in {"K_BACKSPACE", "K_DELETE", "K_RETURN", "K_LEFT"}}
    \cup {CwKey("K_RIGHT", FALSE, TRUE)}
    \cup {CwKey(k, TRUE, FALSE) : k \in {"K_c", "K_v", "K_x"}}
    \cup {CwUndoKey, CwRedoKey}
    \cup {CwMouse("MOUSEBUTTONDOWN", 1), CwMouse("MOUSEMOTION", 0),
          CwMouse("MOUSEBUTTONUP", 1)}

\* events handled in a run
MaxCwEvents == 3

\* the texts loaded
CwTexts == {<<<<>>>>, <<<<"a","b">>>>, <<<<"a">>, <<"b">>>>}

\* the texts on the clipboard
CwClips == {<<<<>>>>, <<<<"b">>, <<"a">>>>}

\* an editor after construction and moves that record no state
CwStart ==
    {CwEditor(t, pos, clip) : t \in CwTexts, pos \in {<<0, 0>>, <<0, 1>>, <<1, 0>>},
                              clip \in CwClips}

CwInit ==
    /\ Constructed
    /\ caller_lines = <<>>
    /\ EditorIdle
    /\ ConvIdle
    /\ HostStart
    /\ cw \in {e \in CwStart : /\ e.current_line < Len(e.lines)
                               /\ e.cursor_pos <= Len(e.lines[e.current_line + 1])}
    /\ cw_before = cw
    /\ cw_event = CwNoEvent
    /\ cw_before2 = cw
    /\ cw_event2 = CwNoEvent
    /\ cw_count = 0

\* editor.handle_event(event)
CwHandles ==
    /\ cw_count < MaxCwEvents
    /\ ~cw.raised
    /\ \E event \in CwEvents :
        /\ cw' = cw_handle_event(cw, event)
        /\ cw_event' = event
    /\ cw_before' = cw
    /\ cw_before2' = cw_before
    /\ cw_event2' = cw_event
    /\ cw_count' = cw_count + 1
    /\ UNCHANGED <<basic_vars, editor_vars, conv_vars, host_vars>>

CwNext == CwHandles

CwSpec == CwInit /\ [][CwNext]_vars

\* events that leave an empty text as it is: keys that find nothing to
\* edit, a move with and without Shift, cut, undo and redo, a stroke
CapEvents ==
    {CwKey(k, FALSE, FALSE) : k \in {"K_BACKSPACE", "K_LEFT"}}
    \cup {CwKey("K_RIGHT", FALSE, TRUE)}
    \cup {CwKey("K_x", TRUE, FALSE), CwUndoKey, CwRedoKey}
    \cup {CwMouse("MOUSEBUTTONDOWN", 1), CwMouse("MOUSEBUTTONUP", 1)}

\* a new editor with no file
CapInit ==
    /\ Constructed
    /\ caller_lines = <<>>
    /\ EditorIdle
    /\ ConvIdle
    /\ HostStart
    /\ UndoIdle

\* editor.handle_event(event), any number of times
CapHandles ==
    /\ ~cw.raised
    /\ \E event \in CapEvents : cw' = cw_handle_event(cw, event)
    /\ UNCHANGED <<cw_before, cw_event, cw_before2, cw_event2, cw_count, basic_vars,
                   editor_vars, conv_vars, host_vars>>

CapNext == CapHandles

CapSpec == CapInit /\ [][CapNext]_vars

\* ------------------------------------------------------------------------
\* Properties
\* ------------------------------------------------------------------------

N_COUNTER == <<"c","o","u","n","t","e","r">>

N_Y == <<"y">>

ProgDelays == {ProgDelay(n) : n \in DelayArgs}

\* the interpreter runs prog: it was handed to reset and not edited since
Runs(prog) == snapshot = prog /\ ~edited

\* the line last executed made a call of eval that raised NameError
NameErrorRaised == \E i \in DOMAIN evals : evals[i].exc = "NameError"

\* C1: in the counting loop that leaves with EXIT DO at counter >= 3, the
\* counter is 3 when the line after LOOP is the next to execute.
C1_LoopRunsThreeTimes ==
    (Runs(ProgLoop) /\ pc = 5) => variables[N_COUNTER] = IntV(3)

\* C2: no call of step is left by an exception.
C2_NoStepRaises == exc = "none"

\* C3: with `_DELAY n` / `END`, the first call of step executes line 0 only
\* and returns with pc = 1 and running true, the second executes END and
\* leaves running false; the lines are executed in increasing order.
C3_DelayYieldsThenHalts ==
    (\E prog \in ProgDelays : Runs(prog)) =>
        /\ \A i \in 1..(Len(trace) - 1) : trace[i] < trace[i + 1]
        /\ (calls = 1 /\ ~in_step) =>
                (pc = 1 /\ running /\ trace = <<0>> /\ exc = "none")
        /\ (calls = 2 /\ ~in_step) =>
                (pc = 2 /\ ~running /\ trace = <<0, 1>> /\ exc = "none")

\* the second call of step on `_DELAY n` / `END` has returned
C3_Witness ==
    (\E prog \in ProgDelays : Runs(prog)) /\ calls = 2 /\ ~in_step /\ ~running

\* C4: a call of step that has executed lines and returns with pc at the
\* end of the program has set running to false.
C4_EndOfProgramHalts ==
    (~edited /\ last_op = "return" /\ trace # <<>> /\ pc = Len(program_lines))
        => ~running

\* C5: while running is false, any step that is not a reset leaves running
\* false and pc, variables, loop_stack, exit_loop, the text cursor and the
\* screen as they are.
C5_HaltedIsTerminal ==
    [][(~running /\ last_op' # "reset") =>
            (~running' /\ UNCHANGED <<pc, variables, loop_stack, exit_loop,
                                      text_cursor, surface>>)]_vars

\* a call of step made after the halt has returned
C5_Witness ==
    (\E prog \in ProgDelays : Runs(prog)) /\ ~running /\ calls = 3
        /\ last_op = "return"

\* C6: on a program that is not edited, pc and every entry of loop_stack
\* stay between 0 and the number of lines.
C6_PcInRange ==
    ~edited =>
        /\ pc \in 0..Len(program_lines)
        /\ \A i \in DOMAIN loop_stack : loop_stack[i] \in 0..Len(program_lines)

\* the scan of a false block IF has run to the end of the program
C6_Witness ==
    Runs(ProgUnbound) /\ fetched.idx = 4 /\ last_op = "line" /\ pc = Len(program_lines)

\* C7: every line step reads is the line the list held when reset was
\* called.
C7_ReadsSnapshot ==
    fetched.idx >= 0 =>
        (fetched.idx < Len(snapshot) /\ snapshot[fetched.idx + 1] = fetched.text)

\* C8: right after reset the screen is a black raster of 320 x 200.
C8_ResetBlackScreen ==
    last_op = "reset" =>
        /\ surface.exists
        /\ surface.w = screen_width
        /\ surface.h = screen_height
        /\ AllBlack(surface)

\* C9: right after reset, pc = 0, variables and loop_stack are empty,
\* exit_loop is false, running is true and the text cursor is (0, 1).
C9_ResetClearsState ==
    last_op = "reset" =>
        /\ pc = 0
        /\ variables = <<>>
        /\ loop_stack = <<>>
        /\ ~exit_loop
        /\ running
        /\ text_cursor = <<0, 1>>

\* reset was called inside a loop, with the cursor moved
C9_Witness ==
    /\ last_op = "reset"
    /\ before_reset.loop_stack # <<>>
    /\ before_reset.pc > 0
    /\ before_reset.text_cursor # <<0, 1>>

N_X == <<"x">>

T_ASSIGN5 == <<"x"," ","="," ","5">>

T_INCREMENTS == {<<"x"," ","="," ","x"," ","+"," ","1">>,
                 <<"c","o","u","n","t","e","r"," ","="," ","c","o","u","n","t","e","r"," ","+"," ","1">>}

\* the line the last iteration of step executed, as execute_line received it
LastLine == CutComment(Strip(fetched.text))

\* the name a line of the form `name = ...` assigns to
Target(line) == Strip(Split1(line, <<"=">>)[1])

\* line starts with the keyword of a drawing command, and the pattern of
\* that command matches nowhere in it
MalformedDraw(line) ==
    \/ StartsWith(Upper(line), <<"L","I","N","E">>) /\ ~Search(line, LineItems).ok
    \/ StartsWith(Upper(line), <<"C","I","R","C","L","E">>) /\ ~Search(line, CircleItems).ok
    \/ StartsWith(Upper(line), <<"P","A","I","N","T">>) /\ ~Search(line, PaintItems).ok

\* vs is the dictionary before with name bound to value, nothing else changed
BoundIn(vs, before, name, value) ==
    /\ DOMAIN vs = DOMAIN before \cup {name}
    /\ vs[name] = value
    /\ \A x \in DOMAIN before \ {name} : vs[x] = before[x]

\* C11: a LINE, CIRCLE or PAINT line whose arguments do not match the
\* command's pattern changes nothing but pc, which advances by one.
C11_MalformedDrawIsNoOp ==
    (last_op = "line" /\ MalformedDraw(LastLine)) =>
        /\ pc = before_line.pc + 1
        /\ surface = before_line.surface
        /\ variables = before_line.variables
        /\ loop_stack = before_line.loop_stack
        /\ exit_loop = before_line.exit_loop
        /\ text_cursor = before_line.text_cursor

\* C12: `x = 5` leaves x = 5 however often it is executed, `v = v + 1` on a
\* numeric v makes v one larger, and neither changes another variable.
C12_AssignConstantAndIncrement ==
    last_op = "line" =>
        /\ LastLine = T_ASSIGN5 =>
                BoundIn(variables, before_line.variables, N_X, IntV(5))
        /\ (/\ LastLine \in T_INCREMENTS
            /\ Target(LastLine) \in DOMAIN before_line.variables
            /\ IsNum(before_line.variables[Target(LastLine)])) =>
                BoundIn(variables, before_line.variables, Target(LastLine),
                        IntV(before_line.variables[Target(LastLine)].n + 1))

\* `x = 5` has been executed with x already 5 and another variable bound,
\* in a run that goes on to increment x
C12_Witness ==
    /\ Runs(ProgStmts)
    /\ last_op = "line"
    /\ LastLine = T_ASSIGN5
    /\ N_X \in DOMAIN before_line.variables
    /\ before_line.variables[N_X] = IntV(5)
    /\ N_Y \in DOMAIN variables

N_K == <<"k">>

T_READKEY == <<"k","$"," ","="," ","I","N","K","E","Y","$">>

\* C13: a read of the keyboard returns the key in the slot, the empty
\* string if there is none, and empties the slot; a key-down puts its key
\* in the slot whatever the slot held.
C13_LastKeySingleSlot ==
    /\ (last_op = "line" /\ LastLine = T_READKEY) =>
            /\ variables[N_K] = StrV(before_line.last_key)
            /\ last_key = <<>>
    /\ (last_op = "event" /\ last_event.type = "KEYDOWN") =>
            last_key = handle_event(Fresh, last_event).last_key

\* a read has returned a key that was waiting in the slot
C13_Witness ==
    /\ Runs(ProgKeys)
    /\ last_op = "line"
    /\ LastLine = T_READKEY
    /\ before_line.last_key # <<>>
    /\ variables[N_K] = StrV(before_line.last_key)
    /\ last_key = <<>>

T_LOOP == <<"L","O","O","P">>

\* C20: a LOOP line executed with exit_loop set and a loop open pops the
\* top of loop_stack, clears exit_loop and leaves pc on the line after the
\* LOOP line.
C20_LoopExitFallsThrough ==
    (/\ last_op = "line"
     /\ Upper(LastLine) = T_LOOP
     /\ before_line.exit_loop
     /\ before_line.loop_stack # <<>>) =>
        /\ loop_stack = SubSeq(before_line.loop_stack, 1,
                               Len(before_line.loop_stack) - 1)
        /\ ~exit_loop
        /\ pc = before_line.pc + 1

T_EXAMPLE == <<"a"," ","="," ","1"," ","A","N","D"," ","b","$"," ","="," ","\"","w","\"">>

T_EXAMPLE_OUT == <<"a"," ","=","="," ","1"," ","a","n","d"," ","b"," ","=","="," ","\"","w","\"">>

\* what the translation of one piece of a condition is to be
Translated(piece) ==
    CASE piece = T_EQ -> <<" ","=","="," ">>
      [] piece = T_EQTIGHT -> <<"=","=">>
      [] piece = T_AND -> <<" ","a","n","d"," ">>
      [] piece = T_OR -> <<" ","o","r"," ">>
      [] piece \in ConvNames /\ piece[Len(piece)] = "$" ->
            SubSeq(piece, 1, Len(piece) - 1)
      [] OTHER -> piece

TranslatedPieces == Concat([i \in DOMAIN conv_in |-> Translated(conv_in[i])])

\* C14: the translation of a condition has " or " / " and " for each
\* " OR " / " AND ", "==" for each bare "=", and each name without its
\* trailing "$"; `a = 1 AND b$ = "w"` becomes `a == 1 and b == "w"`.
C14_TranslatesOperators ==
    conv_out # <<>> =>
        /\ (\A i \in DOMAIN conv_in : conv_in[i] # T_EQEQ) =>
                conv_out = TranslatedPieces
        /\ Concat(conv_in) = T_EXAMPLE => conv_out = T_EXAMPLE_OUT

\* the example condition has been translated
C14_Witness ==
    /\ Concat(conv_in) = T_EXAMPLE
    /\ Len(conv_in) = 7
    /\ conv_out = T_EXAMPLE_OUT

\* C15: a condition whose comparisons are all among "<=", ">=", "==" and
\* "!=" is translated with every one of them as it was written.
C15_RelationalOperatorsUnchanged ==
    (/\ conv_out # <<>>
     /\ \A i \in DOMAIN conv_in :
            conv_in[i] \in ConvCompares => conv_in[i] \in {T_LE, T_GE, T_EQEQ, T_NE}) =>
        conv_out = TranslatedPieces

\* the same text and the same cursor
SameTextAndCursor(e, f) ==
    /\ e.lines = f.lines
    /\ e.current_line = f.current_line
    /\ e.cursor_pos = f.cursor_pos

\* the last event was a character typed into an editor that had no
\* selection and whose cursor was within its line
TypedChar ==
    /\ ed_event.unicode # <<>>
    /\ ~ed_event.cmd
    /\ ~HasSelection(ed_before)
    /\ ed_before.cursor_pos <= Len(LineAt(ed_before, ed_before.current_line))

\* C16: from a state with no selection and the cursor within its line,
\* a character inserted at the cursor and then a backspace give back the
\* lines, the current line and the cursor position.
C16_InsertThenBackspaceRestores ==
    TypedChar =>
        /\ SameTextAndCursor(handle_backspace(ed_handled), ed_before)
        /\ ~ed_event.shift =>
                SameTextAndCursor(input(editor, [NoKey EXCEPT !.key = "K_BACKSPACE"]),
                                  ed_before)

\* a character has been typed in the middle of a line
C16_Witness ==
    /\ TypedChar
    /\ ~ed_event.shift
    /\ ed_before.cursor_pos = 1
    /\ Len(LineAt(ed_before, ed_before.current_line)) = 2
    /\ Len(LineAt(editor, editor.current_line)) = 3
    /\ editor.cursor_pos = 2

\* the last event was K_RETURN
Returned == ed_event.key = "K_RETURN" /\ ~ed_event.cmd

\* C17: handle_return with the cursor at position p of line i leaves the
\* first p characters on line i, puts the rest on a new line i+1, keeps
\* the other lines and their order, and moves the cursor to (i+1, 0).
C17_ReturnSplitsLine ==
    Returned =>
        /\ Len(ed_handled.lines) = Len(ed_before.lines) + 1
        /\ \A j \in 0..(ed_before.current_line - 1) :
                LineAt(ed_handled, j) = LineAt(ed_before, j)
        /\ LineAt(ed_handled, ed_before.current_line)
                \o LineAt(ed_handled, ed_before.current_line + 1)
              = LineAt(ed_before, ed_before.current_line)
        /\ Len(LineAt(ed_handled, ed_before.current_line))
              = Smaller(ed_before.cursor_pos,
                        Len(LineAt(ed_before, ed_before.current_line)))
        /\ \A j \in (ed_before.current_line + 1)..(Len(ed_before.lines) - 1) :
                LineAt(ed_handled, j + 1) = LineAt(ed_before, j)
        /\ ed_handled.current_line = ed_before.current_line + 1
        /\ ed_handled.cursor_pos = 0

\* a line has been split in its middle, with lines before and after it
C17_Witness ==
    /\ Returned
    /\ Len(ed_before.lines) = 3
    /\ ed_before.current_line = 1
    /\ ed_before.cursor_pos = 1
    /\ Len(LineAt(ed_before, 1)) = 2
    /\ Len(ed_handled.lines) = 4
    /\ Len(LineAt(ed_handled, 1)) = 1
    /\ Len(LineAt(ed_handled, 2)) = 1

\* the text as one string, the lines joined by newlines
RECURSIVE Joined(_)
Joined(ls) ==
    IF Len(ls) = 1 THEN ls[1] ELSE ls[1] \o <<"\n">> \o Joined(Tail(ls))

\* the offset of a position in the joined text
OffsetOf(ls, pos) ==
    IF pos[1] = 0 THEN pos[2]
    ELSE Len(Joined(SubSeq(ls, 1, pos[1]))) + 1 + pos[2]

\* pos is a position of the text
ValidPos(ls, pos) ==
    /\ pos[1] \in 0..(Len(ls) - 1)
    /\ pos[2] \in 0..Len(ls[pos[1] + 1])

\* the last event was K_BACKSPACE or K_DELETE on a selection between two
\* positions of the text
DeletedSelection ==
    /\ ed_event.key \in {"K_BACKSPACE", "K_DELETE"}
    /\ ~ed_event.cmd
    /\ HasSelection(ed_before)
    /\ ValidPos(ed_before.lines, ed_before.selection_start)
    /\ ValidPos(ed_before.lines, ed_before.selection_end)

\* the selection of ed_before is cut out of its text, the cursor is on
\* the endpoint `first` and nothing is selected
CutBetween(first, last) ==
    /\ Joined(ed_handled.lines) =
            Before(Joined(ed_before.lines), OffsetOf(ed_before.lines, first))
            \o From(Joined(ed_before.lines), OffsetOf(ed_before.lines, last))
    /\ <<ed_handled.current_line, ed_handled.cursor_pos>> = first
    /\ ~HasSelection(ed_handled)
    /\ ed_handled.selection_start = <<>>
    /\ ed_handled.selection_end = <<>>

\* C18: backspace or delete with a selection removes the characters
\* between its two endpoints, whichever comes first, keeps the rest of
\* the text, puts the cursor on the earlier endpoint and clears the
\* selection.
C18_DeleteSelection ==
    DeletedSelection =>
        IF OffsetOf(ed_before.lines, ed_before.selection_start)
                <= OffsetOf(ed_before.lines, ed_before.selection_end)
        THEN CutBetween(ed_before.selection_start, ed_before.selection_end)
        ELSE CutBetween(ed_before.selection_end, ed_before.selection_start)

\* a selection made backwards over a line break has been deleted
C18_Witness ==
    /\ DeletedSelection
    /\ ed_before.selection_start[1] > ed_before.selection_end[1]
    /\ ed_before.selection_start[2] < ed_before.selection_end[2]
    /\ Len(ed_handled.lines) < Len(ed_before.lines)
    /\ ed_handled.current_line = ed_before.selection_end[1]

\* the last event was a navigation key
Navigated ==
    /\ ed_event.key \in {"K_UP", "K_DOWN", "K_LEFT", "K_RIGHT", "K_PAGEUP", "K_PAGEDOWN"}
    /\ ~ed_event.cmd
    /\ ed_before.current_line \in 0..(Len(ed_before.lines) - 1)

\* C19: a navigation key leaves current_line within the lines and the
\* lines as they were; up and page up do not increase current_line, down
\* and page down do not decrease it.
C19_NavigationStaysInText ==
    Navigated =>
        /\ ed_handled.current_line \in 0..(Len(ed_handled.lines) - 1)
        /\ ed_handled.lines = ed_before.lines
        /\ ed_event.key \in {"K_UP", "K_PAGEUP"} =>
                ed_handled.current_line <= ed_before.current_line
        /\ ed_event.key \in {"K_DOWN", "K_PAGEDOWN"} =>
                ed_handled.current_line >= ed_before.current_line

\* page down has stopped at the last line, short of a full page
C19_Witness ==
    /\ Navigated
    /\ ed_event.key = "K_PAGEDOWN"
    /\ ed_event.visible = 2
    /\ ed_before.current_line = 1
    /\ ed_handled.current_line = 2
    /\ Len(ed_handled.lines) = 3

\* C21: in the nested loops, every line executed inside the outer loop
\* (after its DO at index 1 and before its LOOP at index 8) leaves the
\* outer loop's return target, 2, at the bottom of loop_stack.
C21_OuterTargetStays ==
    (/\ Runs(ProgNested)
     /\ last_op = "line"
     /\ fetched.idx \in 1..7) =>
        /\ loop_stack # <<>>
        /\ loop_stack[1] = 2

T_DO == <<"D","O">>

\* C22: a DO line at index i pushes i+1 on loop_stack; a LOOP line
\* executed with exit_loop false and a loop open sets pc to the top of
\* loop_stack and leaves loop_stack as it was.
C22_DoPushesLoopJumpsBack ==
    /\ (last_op = "line" /\ Upper(LastLine) = T_DO) =>
            /\ loop_stack = Append(before_line.loop_stack, fetched.idx + 1)
            /\ pc = fetched.idx + 1
    /\ (/\ last_op = "line"
        /\ Upper(LastLine) = T_LOOP
        /\ ~before_line.exit_loop
        /\ before_line.loop_stack # <<>>) =>
            /\ pc = before_line.loop_stack[Len(before_line.loop_stack)]
            /\ loop_stack = before_line.loop_stack
            /\ ~exit_loop

\* the LOOP of the keyboard loop has jumped back to the line after its DO
C22_Witness ==
    /\ Runs(ProgInkey)
    /\ last_op = "line"
    /\ Upper(LastLine) = T_LOOP
    /\ fetched.idx = 3
    /\ ~before_line.exit_loop
    /\ before_line.loop_stack = <<1>>
    /\ loop_stack = <<1>>
    /\ pc = 1

\* the line last executed is a block conditional, IF <cond> THEN with
\* nothing after THEN, whose condition was false
FalseBlockIf ==
    /\ last_op = "line"
    /\ StartsWith(Upper(LastLine), <<"I","F">>)
    /\ Contains(LastLine, K_THEN)
    /\ Strip(Split1(LastLine, K_THEN)[2]) = <<>>
    /\ Len(evals) = 1
    /\ ~Truthy(evals[1].v)

\* the indexes after the line last executed of the lines that are END IF
EndIfsAfter ==
    {j \in (fetched.idx + 1)..(Len(program_lines) - 1) :
        Upper(Strip(program_lines[j + 1])) = K_ENDIF}

\* C23: a block conditional with a false condition changes pc only, to
\* the index after the first later END IF line, whatever lies between, or
\* to the length of the program if there is none.
C23_FalseBlockSkipsToEndIf ==
    FalseBlockIf =>
        /\ IF EndIfsAfter = {}
           THEN pc = Len(program_lines)
           ELSE /\ pc - 1 \in EndIfsAfter
                /\ \A j \in EndIfsAfter : pc - 1 <= j
        /\ variables = before_line.variables
        /\ loop_stack = before_line.loop_stack
        /\ exit_loop = before_line.exit_loop
        /\ running = before_line.running
        /\ text_cursor = before_line.text_cursor
        /\ surface = before_line.surface
        /\ last_key = before_line.last_key

\* the false conditional at index 1 has skipped the conditional inside it
\* and stopped after the END IF at index 4, short of the one at index 6
C23_Witness ==
    /\ Runs(ProgIfs)
    /\ FalseBlockIf
    /\ fetched.idx = 1
    /\ EndIfsAfter = {4, 6}
    /\ pc = 5
    /\ N_Y \notin DOMAIN variables

T_DELAY == <<"_","D","E","L","A","Y">>

\* the line last executed ran a delay command: it is one, or it is a
\* one-line conditional with a true condition whose THEN-part is one
DelayRan ==
    /\ last_op \in {"line", "yield"}
    /\ \/ StartsWith(Upper(LastLine), T_DELAY) /\ ~Contains(LastLine, <<"=">>)
       \/ /\ StartsWith(Upper(LastLine), <<"I","F">>)
          /\ Contains(LastLine, K_THEN)
          /\ StartsWith(Upper(Strip(Split1(LastLine, K_THEN)[2])), T_DELAY)
          /\ Len(evals) >= 1
          /\ Truthy(evals[1].v)

\* C24: a delay command that has run ends the call of step: no further
\* line is executed in that call, also when the delay is the THEN-part of
\* a true one-line conditional.
C24_DelayEndsStepCall == DelayRan => (last_op = "yield" /\ ~in_step)

\* the keywords of the commands that take an argument and bind nothing
T_COMMANDS ==
    {<<"P","R","I","N","T">>, <<"L","O","C","A","T","E">>, <<"L","I","N","E">>, <<"C","I","R","C","L","E">>, <<"P","A","I","N","T">>, T_DELAY}

\* C25: a line whose leading keyword is PRINT, LOCATE, LINE, CIRCLE, PAINT
\* or _DELAY binds no variable, whatever its argument holds.
C25_CommandBindsNothing ==
    (/\ last_op \in {"line", "yield"}
     /\ \E kw \in T_COMMANDS : StartsWith(Upper(LastLine), kw)) =>
        variables = before_line.variables

T_IFLOWER == <<"i","f"," ","x"," ","t","h","e","n"," ","y"," ","="," ","1">>

T_IFUPPER == <<"I","F"," ","x"," ","T","H","E","N"," ","y"," ","="," ","1">>

\* the interpreter as step hands it to execute_line for the line last
\* fetched: pc advanced, no call of eval made yet
AtLastLine == [before_line EXCEPT !.pc = @ + 1, !.evals = <<>>]

\* C26: the one-line conditional written `if x then y = 1` leaves the
\* state that `IF x THEN y = 1` leaves when executed in its place.
C26_LowerCaseKeywords ==
    (/\ last_op \in {"line", "raise", "yield"}
     /\ LastLine = T_IFLOWER) =>
        /\ exc = execute_line(AtLastLine, T_IFUPPER).exc
        /\ variables = execute_line(AtLastLine, T_IFUPPER).self.variables
        /\ pc = execute_line(AtLastLine, T_IFUPPER).self.pc

\* C27: every string literal of a condition is in its translation as it
\* was written, quotes and contents.
C27_LiteralsUnchanged ==
    conv_out # <<>> =>
        \A i \in DOMAIN conv_in :
            conv_in[i] \in ConvQuoted => Contains(conv_out, conv_in[i])

T_IFKEY == <<"I","F"," ","I","N","K","E","Y","$"," ","="," ","\"","w","\""," ","T","H","E","N"," ","x"," ","="," ","1">>

\* C28: the conditional `IF INKEY$ = "w" THEN x = 1` compares the key in
\* the slot with "w" and empties the slot, as a read of INKEY$ alone does.
C28_KeyReadInsideExpression ==
    (last_op = "line" /\ LastLine = T_IFKEY) =>
        /\ last_key = <<>>
        /\ before_line.last_key = <<"w">> =>
                (N_X \in DOMAIN variables /\ variables[N_X] = IntV(1))

\* C29: a key-down of a directional key or of Escape leaves a sequence of
\* more than one character in last_key; a key-down of any other key
\* leaves the character the key produces.
C29_SentinelsForSpecialKeys ==
    (last_op = "event" /\ last_event.type = "KEYDOWN") =>
        IF last_event.key \in {"K_UP", "K_DOWN", "K_LEFT", "K_RIGHT", "K_ESCAPE"}
        THEN Len(last_key) >= 2
        ELSE last_key = last_event.unicode

T_PRINT == <<"P","R","I","N","T">>

\* C30: an executed PRINT line moves the text cursor from (c, r) to
\* (0, r + 1) and leaves variables, loop_stack and exit_loop as they were.
C30_PrintAdvancesRow ==
    (last_op = "line" /\ StartsWith(Upper(LastLine), T_PRINT)) =>
        /\ text_cursor = <<0, before_line.text_cursor[2] + 1>>
        /\ variables = before_line.variables
        /\ loop_stack = before_line.loop_stack
        /\ exit_loop = before_line.exit_loop

N_M == <<"m">>

\* C31: once a step call has entered the loop DO / x = 1 / LOOP, whose
\* body has no delay, no END and no EXIT DO, the call never returns: the
\* condition of the loop of step stays true, no exception leaves it, and pc
\* stays at the indexes of the body and of LOOP.
C31_SpinNeverReturns ==
    (Runs(ProgSpin) /\ loop_stack # <<>>) =>
        /\ in_step
        /\ step_continues(Self)
        /\ exc = "none"
        /\ last_op = "line"
        /\ pc \in 1..2

\* LOOP has jumped back to the body for the second time in one call
C31_Witness ==
    /\ Runs(ProgSpin)
    /\ in_step
    /\ calls = 1
    /\ last_op = "line"
    /\ fetched.idx = 2
    /\ pc = 1
    /\ trace = <<1, 2, 1, 2>>

\* the line last executed is IF <cond> THEN EXIT DO with a true condition
ExitTaken ==
    /\ last_op = "line"
    /\ StartsWith(Upper(LastLine), <<"I","F">>)
    /\ Contains(LastLine, K_THEN)
    /\ Upper(Strip(Split1(LastLine, K_THEN)[2])) = K_EXITDO
    /\ Len(evals) = 1
    /\ Truthy(evals[1].v)

\* C35: a true IF <cond> THEN EXIT DO sets exit_loop and goes on at the
\* next line with the loop stack as it was; every line executed with
\* exit_loop set that is not LOOP leaves it set and, unless it is a false
\* block conditional, goes on at the line after it; LOOP clears it.
C35_ExitDoOnlySetsFlag ==
    /\ ExitTaken =>
        /\ exit_loop
        /\ pc = fetched.idx + 1
        /\ loop_stack = before_line.loop_stack
    /\ (/\ last_op \in {"line", "yield", "raise"}
        /\ before_line.exit_loop
        /\ Upper(LastLine) # <<"L","O","O","P">>) =>
            /\ exit_loop
            /\ FalseBlockIf \/ pc = fetched.idx + 1
    /\ (/\ last_op = "line"
        /\ before_line.exit_loop
        /\ Upper(LastLine) = <<"L","O","O","P">>) => ~exit_loop

\* the assignment between the conditional and LOOP has executed with the
\* flag set
C35_Witness ==
    /\ Runs(ProgExit)
    /\ last_op = "line"
    /\ fetched.idx = 4
    /\ before_line.exit_loop
    /\ exit_loop
    /\ pc = 5
    /\ N_M \in DOMAIN variables
    /\ variables[N_M] = IntV(5)

\* the indexes after the line last executed of the lines that step would
\* dispatch as END IF: stripped, the comment cut, upper-cased
DispatchedEndIfsAfter ==
    {j \in (fetched.idx + 1)..(Len(program_lines) - 1) :
        Upper(CutComment(Strip(program_lines[j + 1]))) = K_ENDIF}

\* C36: the scan of a false block conditional ends at the first later line
\* that step would dispatch as END IF after cutting a trailing comment and
\* the white space around it.
C36_ScanEndsAtDispatchedEndIf ==
    (FalseBlockIf /\ DispatchedEndIfsAfter # {}) =>
        /\ pc - 1 \in DispatchedEndIfsAfter
        /\ \A j \in DispatchedEndIfsAfter : pc - 1 <= j

\* C39: reset leaves the key slot as it was, the DO line before the first
\* read leaves it too, and the first key-read of the new run returns what
\* is in the slot: a key notified before reset and not consumed is the
\* value of that read.
C39_ResetKeepsLastKey ==
    /\ last_op = "reset" => last_key = before_reset.last_key
    /\ (last_op = "line" /\ Upper(LastLine) = T_DO) =>
            last_key = before_line.last_key
    /\ (/\ Runs(ProgKeys)
        /\ calls = 1
        /\ last_op = "line"
        /\ trace = <<0, 1>>) =>
            variables[N_K] = StrV(before_line.last_key)

\* reset has run with a key waiting in the slot, and the key is still there
C39_Witness ==
    /\ last_op = "reset"
    /\ caller_lines = ProgKeys
    /\ before_reset.last_key # <<>>
    /\ last_key = before_reset.last_key

\* C37: reset is called in exactly the frames in which a click changed the
\* mode from a non-run mode to run; step is called only in run mode, with
\* running true, and after a reset made since the mode last became run.
C37_ResetOnEnteringRun ==
    /\ host_at \in {"draw", "step"} => (reset_called <=> entered_run)
    /\ last_op = "call" =>
        /\ current_mode = "run"
        /\ running
        /\ ~out_of_run

\* C38: the editor and the console receive no event while the mode is run,
\* and from a reset until the mode leaves run the list handed to reset is
\* as reset received it.
C38_LinesKeptWhileRunning ==
    /\ received # "run"
    /\ (shared /\ ~out_of_run) =>
        /\ current_mode = "run"
        /\ ~edited
        /\ caller_lines = snapshot
        /\ program_lines = snapshot

\* in run mode since the reset, a key has gone to the interpreter and a
\* call of step has returned
C38_Witness ==
    /\ shared
    /\ ~out_of_run
    /\ current_mode = "run"
    /\ host_at = "events"
    /\ last_op = "event"
    /\ last_key # <<>>
    /\ calls >= 1
    /\ received = "text"

\* C32: the undo stack never holds more than 100 states, whatever events,
\* strokes, undos and redos came before.
C32_UndoStackCapped == Len(cw.undo_stack) <= UNDO_LIMIT

\* the stack is full and the oldest state has been dropped
C32_Witness ==
    /\ Len(cw.undo_stack) = UNDO_LIMIT
    /\ cw.trimmed

\* C33: with a state on the undo stack, undo followed at once by redo
\* leaves lines, current_line, cursor_pos, the undo stack and the redo
\* stack as they were before the undo.
C33_UndoRedoRestores ==
    (/\ cw_event = CwRedoKey
     /\ cw_event2 = CwUndoKey
     /\ cw_before2.undo_stack # <<>>) =>
        /\ cw.lines = cw_before2.lines
        /\ cw.current_line = cw_before2.current_line
        /\ cw.cursor_pos = cw_before2.cursor_pos
        /\ cw.undo_stack = cw_before2.undo_stack
        /\ cw.redo_stack = cw_before2.redo_stack

\* an edit was undone and redone: the text differed after the undo
C33_Witness ==
    /\ cw_event = CwRedoKey
    /\ cw_event2 = CwUndoKey
    /\ cw_before2.undo_stack # <<>>
    /\ cw_before.lines # cw_before2.lines
    /\ cw.lines = cw_before2.lines
    /\ cw.undo_stack = cw_before2.undo_stack

\* the event is one that edits: typed text, backspace, delete, return,
\* paste or cut
CwEdits(event) ==
    \/ event.type = "TEXTINPUT"
    \/ event.type = "KEYDOWN" /\ ~event.ctrl
            /\ event.key \in {"K_BACKSPACE", "K_DELETE", "K_RETURN"}
    \/ event.type = "KEYDOWN" /\ event.ctrl /\ event.key \in {"K_v", "K_x"}

\* C34: an undo that follows at once an event that changed lines leaves
\* lines as they were before that event.
C34_UndoRevertsLastEdit ==
    (/\ cw_event = CwUndoKey
     /\ CwEdits(cw_event2)
     /\ cw_before.lines # cw_before2.lines) =>
        cw.lines = cw_before2.lines

=============================================================================
